---------------------------- MODULE Spec2Model ----------------------------
(***************************************************************************)
(* SignFlow backend: the transcription / simplification / sign-resolution *)
(* pipeline (backend/src/services) as a state machine of one request.     *)
(*                                                                         *)
(* Text is a sequence of one-character strings.  A JavaScript value that  *)
(* crosses a backend boundary (a field of a JSON reply) is a record       *)
(* [t, s, a, n]: t is its type tag, s its characters when a string, a its  *)
(* elements when an array, n its value when a number.                     *)
(***************************************************************************)
EXTENDS Integers, Sequences, FiniteSets, TLC

-----------------------------------------------------------------------------
(* Characters *)

LowerLetters ==
  << "a","b","c","d","e","f","g","h","i","j","k","l","m",
     "n","o","p","q","r","s","t","u","v","w","x","y","z" >>

UpperLetters ==
  << "A","B","C","D","E","F","G","H","I","J","K","L","M",
     "N","O","P","Q","R","S","T","U","V","W","X","Y","Z" >>

Digits == {"0","1","2","3","4","5","6","7","8","9"}

Range(f) == { f[i] : i \in DOMAIN f }

\* String.prototype.toLowerCase / toUpperCase, one character at a time
LowerChar(c) ==
  IF \E i \in DOMAIN UpperLetters : UpperLetters[i] = c
    THEN LowerLetters[CHOOSE i \in DOMAIN UpperLetters : UpperLetters[i] = c]
    ELSE c

UpperChar(c) ==
  IF \E i \in DOMAIN LowerLetters : LowerLetters[i] = c
    THEN UpperLetters[CHOOSE i \in DOMAIN LowerLetters : LowerLetters[i] = c]
    ELSE c

toLowerCase(s) == [i \in DOMAIN s |-> LowerChar(s[i])]

toUpperCase(s) == [i \in DOMAIN s |-> UpperChar(s[i])]

\* the regular-expression classes \w and \s
IsWordChar(c) == c \in Range(LowerLetters) \cup Range(UpperLetters) \cup Digits \cup {"_"}

IsSpaceChar(c) == c \in {" ", "\t", "\n"}

\* String.prototype.trim
RECURSIVE TrimLeft(_)
TrimLeft(s) ==
  IF s # << >> /\ IsSpaceChar(Head(s)) THEN TrimLeft(Tail(s)) ELSE s

RECURSIVE TrimRight(_)
TrimRight(s) ==
  IF s # << >> /\ IsSpaceChar(s[Len(s)]) THEN TrimRight(SubSeq(s, 1, Len(s) - 1)) ELSE s

trim(s) == TrimRight(TrimLeft(s))

-----------------------------------------------------------------------------
(* utils/text.js *)

STOPWORDS ==
  { <<"a">>, <<"a","n">>, <<"t","h","e">>, <<"a","n","d">>, <<"o","r">>,
    <<"b","u","t">>, <<"i","f">>, <<"t","h","e","n">>, <<"s","o">>,
    <<"i","s">>, <<"a","r","e">>, <<"t","o">>, <<"f","o","r">>,
    <<"w","i","t","h">>, <<"o","n">>, <<"i","n">>, <<"o","f">> }

\* .replace(/[^\w\s'-]/gi, ' ')
StripPunctuation(s) ==
  [i \in DOMAIN s |->
     IF IsWordChar(s[i]) \/ IsSpaceChar(s[i]) \/ s[i] \in {"'", "-"} THEN s[i] ELSE " "]

\* .replace(/\s+/g, ' ')
RECURSIVE CollapseSpaces(_)
CollapseSpaces(s) ==
  IF s = << >> THEN << >>
  ELSE IF IsSpaceChar(Head(s))
    THEN <<" ">> \o CollapseSpaces(TrimLeft(Tail(s)))
    ELSE <<Head(s)>> \o CollapseSpaces(Tail(s))

\* the same chain with trim() called first
normalizeSentenceTrimFirst(text) ==
  toLowerCase(CollapseSpaces(StripPunctuation(trim(text))))

normalizeSentence(text) ==
  toLowerCase(trim(CollapseSpaces(StripPunctuation(text))))

\* String.prototype.split(' '), then .filter(Boolean)
RECURSIVE SplitOnSpace(_, _)
SplitOnSpace(s, cur) ==
  IF s = << >> THEN <<cur>>
  ELSE IF Head(s) = " " THEN <<cur>> \o SplitOnSpace(Tail(s), << >>)
  ELSE SplitOnSpace(Tail(s), Append(cur, Head(s)))

Tokens(normalized) == SelectSeq(SplitOnSpace(normalized, << >>), LAMBDA t : t # << >>)

\* the for-of loop of extractKeywords: a stopword is skipped before the limit
\* test, any other token is pushed (once) and then the limit is tested
RECURSIVE KeywordLoop(_, _, _)
KeywordLoop(tokens, keywords, limit) ==
  IF tokens = << >> THEN keywords
  ELSE IF Head(tokens) \in STOPWORDS THEN KeywordLoop(Tail(tokens), keywords, limit)
  ELSE LET pushed == IF Head(tokens) \in Range(keywords)
                       THEN keywords ELSE Append(keywords, Head(tokens))
       IN  IF Len(pushed) >= limit THEN pushed
           ELSE KeywordLoop(Tail(tokens), pushed, limit)

extractKeywords(text, limit) ==
  KeywordLoop(Tokens(normalizeSentence(text)), << >>, limit)

DefaultKeywordLimit == 12


-----------------------------------------------------------------------------
(* JavaScript values *)

JUndefined == [t |-> "undefined", s |-> << >>, a |-> << >>, n |-> 0]

JStr(chars) == [t |-> "string", s |-> chars, a |-> << >>, n |-> 0]

JNum(k) == [t |-> "number", s |-> << >>, a |-> << >>, n |-> k]

JArr(elems) == [t |-> "array", s |-> << >>, a |-> elems, n |-> 0]

\* ToBoolean
Truthy(v) ==
  \/ v.t = "string" /\ v.s # << >>
  \/ v.t = "number" /\ v.n # 0
  \/ v.t = "array"

\* v?.length, as the condition of a ?: (a number has no length)
HasLength(v) ==
  \/ v.t = "string" /\ Len(v.s) > 0
  \/ v.t = "array" /\ Len(v.a) > 0

\* a || b  for an opaque string or a number, "" and 0 being the falsy values
OrElse(a, b) == IF a = "" THEN b ELSE a

OrElseNum(a, b) == IF a = 0 THEN b ELSE a

-----------------------------------------------------------------------------
(* config.js *)

\* the top-level keys of the exported config object
ConfigKeys == {"env", "port", "frontendOrigin", "localStt", "gemini", "qdrant", "pipeline"}

FallbackLocale == "en-US"

LocalSttTimeoutMs == 5000

\* the two revisions of services/geminiClient.js that the repository holds
Clients == {"geminiClient.js", "part_003"}

\* the config section each revision reads for the local STT settings
LocalSttSection(client) == IF client = "geminiClient.js" THEN "localSTT" ELSE "localStt"

\* the provider tag each revision gives a local reply that carries none
DefaultLocalProvider(client) == IF client = "geminiClient.js" THEN "local-stt" ELSE "whisper"

\* whether the revision arms an abort timer around the local call
HasAbortTimer(client) == client = "part_003"

-----------------------------------------------------------------------------
(* Texts and replies of the backends *)

MockTranscript ==
  << "h","e","l","l","o"," ","e","v","e","r","y","o","n","e"," ",
     "t","o","d","a","y"," ","w","e"," ","h","a","v","e"," ","a"," ",
     "m","e","e","t","i","n","g" >>

\* what the speech backends may hear; the cloud text is trimmed by the client
SpokenTexts ==
  { << >>,
    << " " >>,
    << "G","o",","," ","g","o"," ","t","o"," ","i","t" >>,
    << " ","H","i","!","\n" >> }

\* the text field of a local STT reply body
LocalTextValues == { JUndefined, JNum(7) } \cup { JStr(s) : s \in SpokenTexts }

\* the body of a 2xx local STT reply, once decoded: an object with these
\* fields ("" and 0 stand for a missing or falsy field), or the JSON null
LocalBodies ==
  [ isNull : {FALSE}, text : LocalTextValues, locale : {""},
    confidence : {0}, provider : {""} ]
  \cup
  [ isNull : {FALSE}, text : LocalTextValues, locale : {"en-GB"},
    confidence : {91}, provider : {"whisper"} ]
  \cup
  [ isNull : {FALSE}, text : {JStr(<< "H","i" >>)}, locale : {""},
    confidence : {0, 91}, provider : {"mock", "gemini"} ]
  \cup
  [ isNull : {TRUE}, text : {JUndefined}, locale : {""}, confidence : {0}, provider : {""} ]

-----------------------------------------------------------------------------
(* State *)

VARIABLES
  cfg,          \* process-wide configuration: client revision, env switches
  req,          \* the call being served: operation and arguments
  pc,           \* where the call is suspended
  text,         \* the argument of simplifySentence
  transcript,   \* the TranscriptionResult, once transcribeAudio has returned
  localReply,   \* the decoded body of the local STT reply, once received
  reply,        \* what the cloud simplification call gave back
  simplified,   \* the SimplificationResult, once simplifySentence has returned
  query,        \* the keywords buildSequence hands to the matcher
  matches,      \* what searchByKeywords returned to buildSequence
  mapping,      \* what buildSequence returned
  outcome,      \* how the call ended: returned or threw
  calls,        \* the backend tiers tried and the failures met so far, in order
  timer,        \* the abort timer of callLocalStt
  endpointSilent, \* the local STT endpoint answers no request
  probe,        \* a helper applied on its own: its name, argument and result
  parked,       \* a second request in flight: its own req, pc, ..., while suspended
  stored,       \* service worker: chrome.storage.local['signflow:state']
  running,      \* service worker: the message handlers that have not finished
  popup,        \* popup: its loading flag and the answers to its toggles
  toTab,        \* the messages the service worker sent to the tab, in order
  toWorker,     \* how many messages of each type content scripts sent; the last chunk's tab
  page,         \* content script: the variables of its closure and the animator
  media,        \* the tab's live media streams, recorders and audio contexts
  pending       \* content script: the calls suspended at an await

vars ==
  << cfg, req, pc, text, transcript, localReply, reply, simplified, query, matches, mapping,
     outcome, calls, timer, endpointSilent, probe, parked, stored, running, popup, toTab,
     toWorker, page, media, pending >>

\* the variables of the browser extension
extension == << stored, running, popup, toTab, toWorker, page, media, pending >>

NoTranscript == [text |-> JUndefined, locale |-> "", confidence |-> 0, provider |-> ""]

NoSimplified ==
  [normalizedText |-> JUndefined, keywords |-> JUndefined,
   glossSequence |-> JUndefined, provider |-> ""]

NoProbe == [fn |-> "", arg |-> << >>, result |-> << >>]

NoMapping == [sequence |-> << >>, videos |-> << >>, provider |-> ""]

NoLocalReply ==
  [ received |-> FALSE, isNull |-> FALSE, text |-> JUndefined, locale |-> "",
    confidence |-> 0, provider |-> "" ]

NoReply == [threw |-> FALSE, raw |-> << >>]

NoOutcome == [kind |-> "none", error |-> ""]

Returned == [kind |-> "return", error |-> ""]

Threw(msg) == [kind |-> "throw", error |-> msg]

NoTimer == [armed |-> FALSE, elapsed |-> 0]

TickMs == 2500

\* the variables of one request, as a record
Loaded ==
  [ req |-> req, pc |-> pc, text |-> text, transcript |-> transcript,
    localReply |-> localReply, reply |-> reply, simplified |-> simplified,
    query |-> query, matches |-> matches, mapping |-> mapping, outcome |-> outcome,
    calls |-> calls, timer |-> timer, endpointSilent |-> endpointSilent ]

\* service-worker.js, defaultState; 0 stands for the null of tabId and of
\* lastUpdated, "" for the null of lastError
defaultState ==
  [ isEnabled |-> FALSE, status |-> "idle", tabId |-> 0, lastSequence |-> << >>,
    chunkCount |-> 0, lastUpdated |-> 0, lastError |-> "" ]


-----------------------------------------------------------------------------
(* The calls a client of the backend can make (routes/signflowRoutes.js) *)

Ops == {"transcribeAudio", "simplifySentence", "interpretAudio", "interpretText"}

\* the argument objects of a direct buildSequence({ glossSequence, keywords })
BuildSequenceArguments ==
  LET word(w) == JStr(w)
      hello == << "h","e","l","l","o" >>
      meeting == << "M","E","E","T","I","N","G" >>
      unknown == << "X","Y","Z" >>
  IN  [ normalizedText : {JUndefined},
        keywords : { JUndefined, JArr(<< word(<< "h","i" >>) >>),
                     JArr(<< word(<< "g","o","i","n","g" >>), word(<< "n","o","w" >>) >>) },
        glossSequence : { JUndefined, JArr(<< >>),
                          JArr(<< word(meeting), word(unknown) >>),
                          JArr(<< word(hello), word(<< "H","E","L","L","O" >>), word(hello) >>),
                          JArr(<< word(unknown), word(unknown) >>) },
        provider : {""} ]

AudioPayloads == {"", "QUJD"}

Locales == {"", "fr-FR"}

TextArguments == { JUndefined } \cup { JStr(s) : s \in SpokenTexts }

Init ==
  /\ cfg \in [client : Clients, localSttEnabled : BOOLEAN, hasApiKey : BOOLEAN,
             hasQdrant : BOOLEAN]
  /\ req = [op |-> "", audioBase64 |-> "", locale |-> ""]
  /\ pc = "idle"
  /\ text = JUndefined
  /\ transcript = NoTranscript
  /\ localReply = NoLocalReply
  /\ reply = NoReply
  /\ simplified = NoSimplified
  /\ query = << >>
  /\ matches = << >>
  /\ mapping = NoMapping
  /\ outcome = NoOutcome
  /\ calls = << >>
  /\ timer = NoTimer
  /\ endpointSilent = FALSE
  /\ probe = NoProbe
  /\ parked = Loaded
  /\ stored = defaultState
  /\ running = << >>
  /\ popup = [loading |-> FALSE, checked |-> FALSE, history |-> << >>]
  /\ toTab = << >>
  /\ toWorker = [status |-> 0, chunks |-> 0, sender |-> 0]
  /\ page = [ isCapturing |-> FALSE, mediaStream |-> 0, mediaRecorder |-> 0,
              audioContext |-> 0, chunkSequence |-> 0, queue |-> << >>,
              isPlaying |-> FALSE, caption |-> << >>, src |-> "", clip |-> "none" ]
  /\ media = [streams |-> {}, recorders |-> {}, contexts |-> {}, created |-> 0]
  /\ pending = << >>

Call ==
  /\ pc = "idle"
  /\ \/ \E op \in Ops, audio \in AudioPayloads, locale \in Locales,
           arg \in TextArguments :
          /\ req' = [op |-> op, audioBase64 |-> audio, locale |-> locale]
          /\ endpointSilent' \in
               IF op \in {"transcribeAudio", "interpretAudio"} /\ cfg.localSttEnabled
                 THEN BOOLEAN ELSE {FALSE}
          /\ IF op \in {"transcribeAudio", "interpretAudio"}
               THEN pc' = "transcribeAudio" /\ text' = JUndefined
               ELSE pc' = "simplifySentence" /\ text' = arg
          /\ simplified' = simplified
     \/ \E arguments \in BuildSequenceArguments :
          /\ req' = [op |-> "buildSequence", audioBase64 |-> "", locale |-> ""]
          /\ pc' = "buildSequence"
          /\ simplified' = arguments
          /\ UNCHANGED << text, endpointSilent >>
  /\ UNCHANGED << cfg, matches, probe, parked, extension, transcript, localReply, reply, query, mapping, outcome,
                  calls, timer >>

-----------------------------------------------------------------------------
(* GeminiClient.transcribeAudio *)

MockConfidence == 60

CloudConfidence == 82

LocalDefaultConfidence == 85

mockTranscription(locale) ==
  [ text |-> JStr(MockTranscript),
    locale |-> OrElse(locale, FallbackLocale),
    confidence |-> MockConfidence,
    provider |-> "mock" ]

\* a client that tags every local result with its own default tag
LocalResultOwnTag(body) ==
  [ text |-> IF Truthy(body.text) THEN body.text ELSE JStr(<< >>),
    locale |-> OrElse(body.locale, OrElse(req.locale, FallbackLocale)),
    confidence |-> OrElseNum(body.confidence, LocalDefaultConfidence),
    provider |-> DefaultLocalProvider(cfg.client) ]

\* the result object built from a decoded local reply
LocalResult(body) ==
  [ text |-> IF Truthy(body.text) THEN body.text ELSE JStr(<< >>),
    locale |-> OrElse(body.locale, OrElse(req.locale, FallbackLocale)),
    confidence |-> OrElseNum(body.confidence, LocalDefaultConfidence),
    provider |-> OrElse(body.provider, DefaultLocalProvider(cfg.client)) ]

\* the result object built from the cloud transcript
CloudResult(raw) ==
  [ text |-> JStr(trim(raw)),
    locale |-> OrElse(req.locale, FallbackLocale),
    confidence |-> CloudConfidence,
    provider |-> "gemini" ]

\* a pipeline that simplifies the text it was called with, not the
\* transcript's
TranscriptionDoneKeepsText(res, log) ==
  /\ transcript' = res
  /\ calls' = log
  /\ IF req.op = "transcribeAudio"
       THEN pc' = "done" /\ outcome' = Returned /\ text' = text
       ELSE pc' = "simplifySentence" /\ outcome' = outcome /\ text' = text

\* transcribeAudio returns res: a /transcribe call is over, interpretAudio
\* goes on to simplifySentence(res.text)
TranscriptionDone(res, log) ==
  /\ transcript' = res
  /\ calls' = log
  /\ IF req.op = "transcribeAudio"
       THEN pc' = "done" /\ outcome' = Returned /\ text' = text
       ELSE pc' = "simplifySentence" /\ outcome' = outcome /\ text' = res.text

\* the tier that follows the local one: the cloud call when a key is
\* configured, the mock transcript otherwise
AfterLocalTier(log) ==
  IF ~cfg.hasApiKey
    THEN TranscriptionDone(mockTranscription(req.locale), Append(log, "mock"))
    ELSE /\ pc' = "cloudStt"
         /\ calls' = Append(log, "cloud")
         /\ UNCHANGED << transcript, text, outcome >>

\* a client that answers a failure of the local tier by calling it again
LocalTierRetried(log) ==
  /\ pc' = "localSttFetch"
  /\ calls' = Append(Append(log, "local-failed"), "local")
  /\ UNCHANGED << transcript, text, outcome >>

\* the local tier failed: the error is caught and logged, the ladder goes on
LocalTierFailed(log) == AfterLocalTier(Append(log, "local-failed"))

\* a client that answers a rejected call with the mock transcript
TranscribeAudioDefaults(msg) ==
  /\ TranscriptionDone(mockTranscription(req.locale), Append(calls, "mock"))
  /\ timer' = timer

TranscribeAudioThrows(msg) ==
  /\ pc' = "done"
  /\ outcome' = Threw(msg)
  /\ UNCHANGED << transcript, text, calls, timer >>

\* whether the client takes the local tier; reading .enabled of a config
\* section that is not there is a TypeError
TranscribeAudio ==
  /\ pc = "transcribeAudio"
  /\ UNCHANGED << cfg, matches, probe, parked, extension, req, localReply, reply, simplified, query, mapping, endpointSilent >>
  /\ IF req.audioBase64 = ""
       THEN TranscribeAudioThrows("audioBase64 payload missing")
     ELSE IF LocalSttSection(cfg.client) \notin ConfigKeys
       THEN TranscribeAudioThrows("TypeError")
     ELSE IF cfg.localSttEnabled
       THEN /\ pc' = "localSttFetch"
            /\ calls' = Append(calls, "local")
            /\ timer' = [armed |-> HasAbortTimer(cfg.client), elapsed |-> 0]
            /\ UNCHANGED << transcript, text, outcome >>
     ELSE AfterLocalTier(calls) /\ timer' = timer

\* fetch settles: a response with some status, or a network error
LocalSttFetchSettles ==
  /\ pc = "localSttFetch"
  /\ ~endpointSilent
  /\ UNCHANGED << cfg, matches, probe, parked, extension, req, localReply, reply, simplified, query, mapping, endpointSilent >>
  /\ timer' = NoTimer
  /\ \E settled \in {"ok", "http500", "network-error"} :
       IF settled = "ok"
         THEN pc' = "localSttBody" /\ UNCHANGED << transcript, text, outcome, calls >>
         ELSE LocalTierFailed(calls)

\* response.json() settles: a decoded body, or a body that is not JSON
LocalSttBodySettles ==
  /\ pc = "localSttBody"
  /\ UNCHANGED << cfg, matches, probe, parked, extension, req, reply, simplified, query, mapping, endpointSilent, timer >>
  /\ \/ \E body \in LocalBodies :
          /\ localReply' = [received |-> TRUE] @@ body
          /\ IF body.isNull THEN LocalTierFailed(calls)
             ELSE TranscriptionDone(LocalResult(body), calls)
     \/ localReply' = localReply /\ LocalTierFailed(calls)

\* time passes while the local call is in flight
TimerTick ==
  /\ pc = "localSttFetch"
  /\ timer.armed
  /\ timer.elapsed < LocalSttTimeoutMs
  /\ timer' = [timer EXCEPT !.elapsed = @ + TickMs]
  /\ UNCHANGED << cfg, matches, probe, parked, extension, req, pc, text, transcript, localReply, reply, simplified, query, mapping, outcome, calls,
                  endpointSilent >>

\* setTimeout(() => controller.abort(), timeoutMs): fetch rejects, the
\* rejection is an ordinary failure of the local tier
AbortTimerFires ==
  /\ pc = "localSttFetch"
  /\ timer.armed
  /\ timer.elapsed >= LocalSttTimeoutMs
  /\ timer' = NoTimer
  /\ UNCHANGED << cfg, matches, probe, parked, extension, req, localReply, reply, simplified, query, mapping, endpointSilent >>
  /\ LocalTierFailed(calls)

\* generateContent settles: a transcript, or any error
CloudSttSettles ==
  /\ pc = "cloudStt"
  /\ UNCHANGED << cfg, matches, probe, parked, extension, req, localReply, reply, simplified, query, mapping, endpointSilent, timer >>
  /\ \/ \E raw \in SpokenTexts : TranscriptionDone(CloudResult(raw), calls)
     \/ TranscriptionDone(mockTranscription(req.locale),
                          Append(Append(calls, "cloud-failed"), "mock"))

-----------------------------------------------------------------------------
(* The cloud simplification reply: free text, cut into pieces.  A piece is *)
(* an opening brace, a closing brace, a "key": value member of a JSON      *)
(* object, or any other run of text.                                       *)

OpenBrace == [k |-> "{", name |-> "", val |-> JUndefined]

CloseBrace == [k |-> "}", name |-> "", val |-> JUndefined]

Prose == [k |-> "text", name |-> "", val |-> JUndefined]

Member(name, val) == [k |-> "member", name |-> name, val |-> val]

\* rawText.indexOf / lastIndexOf, 0 standing for -1
IndexOfKind(raw, k) ==
  IF \E i \in DOMAIN raw : raw[i].k = k
    THEN CHOOSE i \in DOMAIN raw : raw[i].k = k /\ \A j \in 1..(i - 1) : raw[j].k # k
    ELSE 0

LastIndexOfKind(raw, k) ==
  IF \E i \in DOMAIN raw : raw[i].k = k
    THEN CHOOSE i \in DOMAIN raw : raw[i].k = k /\ \A j \in (i + 1)..Len(raw) : raw[j].k # k
    ELSE 0

\* JSON.parse of the slice: an object when the slice is one brace pair
\* around members only
IsJsonObject(sliced) ==
  /\ Len(sliced) >= 2
  /\ sliced[1].k = "{"
  /\ sliced[Len(sliced)].k = "}"
  /\ \A i \in 2..(Len(sliced) - 1) : sliced[i].k = "member"

\* obj[name]: the last member of that name; undefined when there is none
\* (a JSON null behaves as undefined under ||, ?. and ?.length)
Property(sliced, name) ==
  IF \E i \in DOMAIN sliced : sliced[i].k = "member" /\ sliced[i].name = name
    THEN sliced[CHOOSE i \in DOMAIN sliced :
                  /\ sliced[i].k = "member" /\ sliced[i].name = name
                  /\ \A j \in (i + 1)..Len(sliced) :
                        ~(sliced[j].k = "member" /\ sliced[j].name = name)].val
    ELSE JUndefined

NoParsed ==
  [normalizedText |-> JUndefined, keywords |-> JUndefined, glossSequence |-> JUndefined]

parseJsonFromText(rawText) ==
  LET start == IndexOfKind(rawText, "{")
      end == LastIndexOfKind(rawText, "}")
      sliced == SubSeq(rawText, start, end)
  IN  IF start = 0 \/ end = 0 THEN [ok |-> FALSE, obj |-> NoParsed]
      ELSE IF ~IsJsonObject(sliced) THEN [ok |-> FALSE, obj |-> NoParsed]
      ELSE [ok |-> TRUE,
            obj |-> [normalizedText |-> Property(sliced, "normalizedText"),
                     keywords |-> Property(sliced, "keywords"),
                     glossSequence |-> Property(sliced, "glossSequence")]]

-----------------------------------------------------------------------------
(* The replies the cloud simplification call may give *)

NormalizedTextValues == { JUndefined, JStr(<< >>), JStr(<< "g","o"," ","i","t" >>) }

KeywordsValues ==
  { JUndefined,
    JArr(<< >>),
    JArr(<< JStr(<< "g","o" >>), JStr(<< "h","e","l","l","o" >>) >>),
    JStr(<< "g","o" >>),
    JNum(5),
    JArr(<< JNum(5) >>) }

GlossSequenceValues ==
  { JUndefined,
    JArr(<< >>),
    JArr(<< JStr(<< "H","E","L","L","O" >>), JStr(<< "G","o" >>) >>),
    JStr(<< "G","O" >>),
    JArr(<< JNum(5) >>) }

MemberIfDefined(name, val) == IF val = JUndefined THEN << >> ELSE << Member(name, val) >>

JsonObject(nt, kw, gs) ==
  << OpenBrace >>
    \o MemberIfDefined("normalizedText", nt)
    \o MemberIfDefined("keywords", kw)
    \o MemberIfDefined("glossSequence", gs)
    \o << CloseBrace >>

JsonObjects ==
  { JsonObject(nt, kw, gs) :
      nt \in NormalizedTextValues, kw \in KeywordsValues, gs \in GlossSequenceValues }

\* a well-formed reply that also appears wrapped in prose, cut short, or
\* with a member given twice
SampleObject ==
  JsonObject(JStr(<< "g","o"," ","i","t" >>),
             JArr(<< JStr(<< "g","o" >>), JStr(<< "h","e","l","l","o" >>) >>),
             JArr(<< JStr(<< "H","E","L","L","O" >>), JStr(<< "G","o" >>) >>))

RawReplies ==
  JsonObjects
  \cup { << Prose >> \o SampleObject \o << Prose >>,
         SampleObject \o << Prose, CloseBrace >>,
         << OpenBrace, Prose, CloseBrace >> \o SampleObject,
         SubSeq(SampleObject, 1, Len(SampleObject) - 1),
         Tail(SampleObject),
         << OpenBrace, Member("keywords", JArr(<< >>)),
            Member("keywords", JArr(<< JStr(<< "g","o" >>) >>)), CloseBrace >>,
         << >>,
         << Prose >>,
         << CloseBrace, Prose, OpenBrace >>,
         << OpenBrace, Prose, CloseBrace >> }

-----------------------------------------------------------------------------
(* GeminiClient.simplifySentence *)

IsStringArray(v) == v.t = "array" /\ \A i \in DOMAIN v.a : v.a[i].t = "string"

StringArray(words) == JArr([i \in DOMAIN words |-> JStr(words[i])])

\* arr.map((kw) => kw.toUpperCase()) on an array of strings
UpperAll(v) == JArr([i \in DOMAIN v.a |-> JStr(toUpperCase(v.a[i].s))])

\* a heuristic that leaves the glosses in the case of the keywords
mockSimplificationSameCase(txt) ==
  IF txt.t # "string" THEN [ok |-> FALSE, val |-> NoSimplified]
  ELSE LET keywords == StringArray(extractKeywords(txt.s, DefaultKeywordLimit))
       IN  [ok |-> TRUE,
            val |-> [normalizedText |-> JStr(normalizeSentence(txt.s)),
                     keywords |-> keywords,
                     glossSequence |-> keywords,
                     provider |-> "fallback"]]

\* normalizeSentence and extractKeywords call text.replace: a TypeError
\* unless text is a string
mockSimplification(txt) ==
  IF txt.t # "string" THEN [ok |-> FALSE, val |-> NoSimplified]
  ELSE LET keywords == StringArray(extractKeywords(txt.s, DefaultKeywordLimit))
       IN  [ok |-> TRUE,
            val |-> [normalizedText |-> JStr(normalizeSentence(txt.s)),
                     keywords |-> keywords,
                     glossSequence |-> UpperAll(keywords),
                     provider |-> "fallback"]]

\* parsed.glossSequence?.length ? parsed.glossSequence
\*   : parsed.keywords?.map(upper) || extractKeywords(text).map(upper)
\* ok is FALSE where the expression throws a TypeError
GlossSequenceOf(parsed, txt) ==
  IF HasLength(parsed.glossSequence) THEN [ok |-> TRUE, val |-> parsed.glossSequence]
  ELSE IF parsed.keywords.t = "undefined"
    THEN IF txt.t = "string"
           THEN [ok |-> TRUE,
                 val |-> UpperAll(StringArray(extractKeywords(txt.s, DefaultKeywordLimit)))]
           ELSE [ok |-> FALSE, val |-> JUndefined]
  ELSE IF IsStringArray(parsed.keywords)
    THEN [ok |-> TRUE, val |-> UpperAll(parsed.keywords)]
  ELSE [ok |-> FALSE, val |-> JUndefined]

\* the object literal returned after a successful decode; each heuristic is
\* evaluated only where the model-supplied field is falsy or has no length
CloudSimplification(parsed, txt) ==
  LET needsNormalize == ~Truthy(parsed.normalizedText)
      needsKeywords == ~HasLength(parsed.keywords)
      gloss == GlossSequenceOf(parsed, txt)
  IN  IF (needsNormalize \/ needsKeywords) /\ txt.t # "string"
        THEN [ok |-> FALSE, val |-> NoSimplified]
      ELSE IF ~gloss.ok THEN [ok |-> FALSE, val |-> NoSimplified]
      ELSE [ok |-> TRUE,
            val |-> [normalizedText |->
                       IF needsNormalize THEN JStr(normalizeSentence(txt.s))
                       ELSE parsed.normalizedText,
                     keywords |->
                       IF needsKeywords
                         THEN StringArray(extractKeywords(txt.s, DefaultKeywordLimit))
                         ELSE parsed.keywords,
                     glossSequence |-> gloss.val,
                     provider |-> "gemini"]]

\* simplifySentence returns res: a /translate call is over, the pipeline
\* goes on to buildSequence
SimplificationDone(res) ==
  /\ simplified' = res
  /\ IF req.op = "simplifySentence"
       THEN pc' = "done" /\ outcome' = Returned
       ELSE pc' = "buildSequence" /\ outcome' = outcome

SimplifySentenceThrows(msg) ==
  /\ pc' = "done"
  /\ outcome' = Threw(msg)
  /\ simplified' = simplified

\* return this.mockSimplification(text), outside any try block
ReturnMock ==
  LET mock == mockSimplification(text)
  IN  IF mock.ok THEN SimplificationDone(mock.val) ELSE SimplifySentenceThrows("TypeError")

SimplifySentence ==
  /\ pc = "simplifySentence"
  /\ UNCHANGED << cfg, matches, probe, parked, extension, req, text, transcript, localReply, reply, query, mapping, timer, endpointSilent >>
  /\ IF ~Truthy(text)
       THEN SimplifySentenceThrows("Text is required for translation") /\ calls' = calls
     ELSE IF ~cfg.hasApiKey
       THEN ReturnMock /\ calls' = calls
     ELSE /\ pc' = "cloudSimplify"
          /\ calls' = Append(calls, "cloud-text")
          /\ UNCHANGED << simplified, outcome >>

\* generateContent settles: some text, or any error; whatever is thrown
\* inside the try block ends in the mock result
CloudSimplifySettles ==
  /\ pc = "cloudSimplify"
  /\ UNCHANGED << cfg, matches, probe, parked, extension, req, text, transcript, localReply, query, mapping, calls, timer,
                  endpointSilent >>
  /\ \/ /\ reply' = [threw |-> TRUE, raw |-> << >>]
        /\ ReturnMock
     \/ \E raw \in RawReplies :
          /\ reply' = [threw |-> FALSE, raw |-> raw]
          /\ LET parsed == parseJsonFromText(raw)
                 res == CloudSimplification(parsed.obj, text)
             IN  IF parsed.ok /\ res.ok THEN SimplificationDone(res.val) ELSE ReturnMock

-----------------------------------------------------------------------------
(* services/qdrantClient.js: the catalogue and the similarity matcher *)

\* the printable ASCII characters, from the space (code 32) on (code 96
\* is spelled out)
Ascii ==
  <<
     " ","!","\"","#","$","%","&","'","(",")","*","+",",","-",".","/",
     "0","1","2","3","4","5","6","7","8","9",":",";","<","=",">","?",
     "@","A","B","C","D","E","F","G","H","I","J","K","L","M","N","O",
     "P","Q","R","S","T","U","V","W","X","Y","Z","[","\\","]","^","_",
     "backtick","a","b","c","d","e","f","g","h","i","j","k","l","m","n","o",
     "p","q","r","s","t","u","v","w","x","y","z","{","|","}","~"
  >>

\* String.prototype.charCodeAt(0) of a one-character string
CharCode(c) == 31 + (CHOOSE i \in DOMAIN Ascii : Ascii[i] = c)

\* String.prototype.includes / startsWith
Includes(s, sub) ==
  \E i \in 1..(Len(s) - Len(sub) + 1) : SubSeq(s, i, i + Len(sub) - 1) = sub

StartsWith(s, prefix) == Len(s) >= Len(prefix) /\ SubSeq(s, 1, Len(prefix)) = prefix

\* the sign records of data/signGlosses.json; embeddings are in tenths and
\* of unit length
SignD(id, gloss, keywords, topics, embedding, videoFile, thumbnail, durationMs) ==
  [ id |-> id, gloss |-> gloss, keywords |-> keywords, topics |-> topics,
    embedding |-> embedding, videoFile |-> videoFile, thumbnail |-> thumbnail,
    durationMs |-> durationMs ]

Hello == << "H","E","L","L","O" >>

signs ==
  << SignD(<< "h","e","l","l","o" >>, Hello,
          << << "h","e","l","l","o" >>, << "h","i" >> >>, << << "g","r","e","e","t","i","n","g" >> >>,
          << 6, 8, 0 >>, << "h","e","l","l","o",".","w","e","b","m" >>, << "h","e","l","l","o",".","p","n","g" >>, 1800),
     SignD(<< "t","o","d","a","y" >>, << "T","O","D","A","Y" >>,
          << << "t","o","d","a","y" >>, << "n","o","w" >> >>, << << "t","i","m","e" >> >>,
          << 0, 0, 10 >>, << "h","t","t","p",":","/","/","c","/","t",".","w","e","b","m" >>, << "t",".","p","n","g" >>, 1500),
     SignD(<< "m","e","e","t","i","n","g" >>, << "M","E","E","T","I","N","G" >>,
          << << "m","e","e","t","i","n","g" >>, << "g","o" >> >>, << << "i","t" >> >>,
          << 8, 0, 6 >>, << "m","e","e","t","i","n","g",".","w","e","b","m" >>, << "m","e","e","t","i","n","g",".","p","n","g" >>, 0) >>

CdnBaseUrl == << "h","t","t","p","s",":","/","/","c","d","n","/" >>

\* keywordToVector, every component times 510: [length / 10,
\* charCodeAt(0) / 255, includes('ing') ? 1 : 0].  The second component of
\* the empty keyword is NaN.
keywordToVector(keyword) ==
  LET normalized == toLowerCase(keyword)
  IN  [ nan |-> normalized = << >>,
        v |-> << 51 * Len(normalized),
                 IF normalized = << >> THEN 0 ELSE 2 * CharCode(normalized[1]),
                 IF Includes(normalized, << "i","n","g" >>) THEN 510 ELSE 0 >> ]

\* a vector of numbers
Vector(v) == [nan |-> FALSE, v |-> v]

RECURSIVE SumTo(_, _)
SumTo(f, n) == IF n = 0 THEN 0 ELSE f[n] + SumTo(f, n - 1)

\* the sums of the loop of cosineSimilarity
DotProduct(a, b) ==
  LET length == IF Len(a) < Len(b) THEN Len(a) ELSE Len(b)
  IN  SumTo([i \in 1..length |-> a[i] * b[i]], length)

\* a score is lex / 20 + 0.3 * dot / (10 * sqrt(normA)): lex counts
\* twentieths, dot and normA are the sums of cosineSimilarity over the
\* scaled query vector and an embedding in tenths (of norm 10, or zero)
ScoreOf(lex, dot, normA) == [lex |-> lex, dot |-> dot, normA |-> normA]

PlainScore(twentieths) == ScoreOf(twentieths, 0, 1)

\* a similarity without the guard on the norms: the quotient of a zero or
\* NaN norm is NaN
cosineSimilarityUnguarded(vecA, vecB) ==
  LET length == IF Len(vecA.v) < Len(vecB.v) THEN Len(vecA.v) ELSE Len(vecB.v)
      a == SubSeq(vecA.v, 1, length)
      b == SubSeq(vecB.v, 1, length)
      normA == DotProduct(a, a)
      normB == DotProduct(b, b)
  IN  IF ((vecA.nan \/ vecB.nan) /\ length >= 2) \/ normA = 0 \/ normB = 0
        THEN [dot |-> 0, normA |-> 1, nan |-> TRUE]
        ELSE [dot |-> DotProduct(a, b), normA |-> normA, nan |-> FALSE]

\* cosineSimilarity(vecA, vecB), as the pair (dot, normA) and whether the
\* value is NaN; 0 when a norm is zero or NaN (the second component of a
\* vector is NaN where its nan is set, and the sums that meet it are NaN)
cosineSimilarity(vecA, vecB) ==
  LET length == IF Len(vecA.v) < Len(vecB.v) THEN Len(vecA.v) ELSE Len(vecB.v)
      a == SubSeq(vecA.v, 1, length)
      b == SubSeq(vecB.v, 1, length)
      normA == DotProduct(a, a)
      normB == DotProduct(b, b)
  IN  IF ((vecA.nan \/ vecB.nan) /\ length >= 2) \/ normA = 0 \/ normB = 0
        THEN [dot |-> 0, normA |-> 1, nan |-> FALSE]
        ELSE [dot |-> DotProduct(a, b), normA |-> normA, nan |-> FALSE]

Abs(x) == IF x < 0 THEN -x ELSE x

Sign(x) == IF x > 0 THEN 1 ELSE IF x < 0 THEN -1 ELSE 0

\* the sign of q * sqrt(r) - p, for integers p, q and r > 0
SignSurd(q, r, p) ==
  IF q = 0 THEN Sign(-p)
  ELSE IF p = 0 \/ Sign(p) # Sign(q) THEN Sign(q)
  ELSE LET pp == p * p
           qq == q * q
           quot == pp \div qq
       IN  IF r > quot THEN Sign(q)
           ELSE IF r = quot /\ pp % qq = 0 THEN 0
           ELSE -Sign(q)

\* the sign of a.score - b.score, for two scores of one search (one query
\* vector, so one normA wherever dot is not 0)
CompareScores(a, b) ==
  SignSurd(5 * (a.lex - b.lex),
           IF a.dot # 0 THEN a.normA ELSE b.normA,
           3 * (b.dot - a.dot))

Positive(score) == CompareScores(score, ScoreOf(0, 0, score.normA)) > 0

\* new Set(list), as the list of its members in insertion order
RECURSIVE Unique(_)
Unique(list) ==
  IF list = << >> THEN << >>
  ELSE LET init == Unique(SubSeq(list, 1, Len(list) - 1))
           last == list[Len(list)]
       IN  IF last \in Range(init) THEN init ELSE Append(init, last)

\* Array.prototype.sort with the comparator (a, b) => b.score - a.score:
\* descending, and stable
RECURSIVE InsertByScore(_, _)
InsertByScore(sorted, entry) ==
  IF sorted = << >> THEN << entry >>
  ELSE IF CompareScores(entry.score, Head(sorted).score) > 0
    THEN << entry >> \o sorted
    ELSE << Head(sorted) >> \o InsertByScore(Tail(sorted), entry)

\* a sort that lets the later of two equal scores come first
RECURSIVE SortByScoreFromEnd(_)
SortByScoreFromEnd(list) ==
  IF list = << >> THEN << >>
  ELSE InsertByScore(SortByScoreFromEnd(Tail(list)), Head(list))

RECURSIVE SortByScore(_)
SortByScore(list) ==
  IF list = << >> THEN << >>
  ELSE InsertByScore(SortByScore(SubSeq(list, 1, Len(list) - 1)), list[Len(list)])

Slice(list, n) == SubSeq(list, 1, IF Len(list) < n THEN Len(list) ELSE n)

CountIn(list, set) == Cardinality({ i \in DOMAIN list : list[i] \in set })

\* a scoring that takes the similarity from the last query keyword
ScoredSignLastKeyword(sign, keywordSet) ==
  LET overlap == CountIn(sign.keywords, Range(keywordSet))
      topicBoost == IF \E i \in DOMAIN sign.topics : sign.topics[i] \in Range(keywordSet)
                      THEN 3 ELSE 0
      last == IF keywordSet = << >> THEN << >> ELSE keywordSet[Len(keywordSet)]
      vectorScore == cosineSimilarity(keywordToVector(last), Vector(sign.embedding))
  IN  [ sign |-> sign,
        score |-> ScoreOf(14 * overlap + topicBoost, vectorScore.dot, vectorScore.normA) ]

\* the entry fallbackSearch scores for one catalogue record
ScoredSign(sign, keywordSet) ==
  LET overlap == CountIn(sign.keywords, Range(keywordSet))
      topicBoost == IF \E i \in DOMAIN sign.topics : sign.topics[i] \in Range(keywordSet)
                      THEN 3 ELSE 0
      first == IF keywordSet = << >> THEN << >> ELSE keywordSet[1]
      vectorScore == cosineSimilarity(keywordToVector(first), Vector(sign.embedding))
  IN  [ sign |-> sign,
        score |-> ScoreOf(14 * overlap + topicBoost, vectorScore.dot, vectorScore.normA) ]

\* one element of the list searchByKeywords returns
Match(id, gloss, videoFile, thumbnail, durationMs, score) ==
  [ id |-> id, gloss |-> gloss, videoFile |-> videoFile, thumbnail |-> thumbnail,
    durationMs |-> durationMs, score |-> score ]

\* a local search that keeps the records of score 0
fallbackSearchUnfiltered(keywords, topK) ==
  LET keywordSet == Unique([i \in DOMAIN keywords |-> toLowerCase(keywords[i])])
      scored == [i \in DOMAIN signs |-> ScoredSign(signs[i], keywordSet)]
      top == Slice(SortByScore(scored), topK)
  IN  [i \in DOMAIN top |->
         Match(JStr(top[i].sign.id), JStr(top[i].sign.gloss), JStr(top[i].sign.videoFile),
               JStr(top[i].sign.thumbnail), top[i].sign.durationMs, top[i].score)]

\* SignRepository.fallbackSearch, keywords being strings
fallbackSearch(keywords, topK) ==
  LET keywordSet == Unique([i \in DOMAIN keywords |-> toLowerCase(keywords[i])])
      scored == [i \in DOMAIN signs |-> ScoredSign(signs[i], keywordSet)]
      kept == SelectSeq(scored, LAMBDA entry : Positive(entry.score))
      top == Slice(SortByScore(kept), topK)
  IN  [i \in DOMAIN top |->
         Match(JStr(top[i].sign.id), JStr(top[i].sign.gloss), JStr(top[i].sign.videoFile),
               JStr(top[i].sign.thumbnail), top[i].sign.durationMs, top[i].score)]

\* SignRepository.getSignByGloss: the first record whose gloss is the
\* uppercased argument or whose id is its lowercase; 0 stands for null
getSignByGloss(gloss) ==
  LET normalized == toUpperCase(gloss)
      hit(sign) == sign.gloss = normalized \/ sign.id = toLowerCase(normalized)
  IN  IF \E i \in DOMAIN signs : hit(signs[i])
        THEN CHOOSE i \in DOMAIN signs : hit(signs[i]) /\ \A j \in 1..(i - 1) : ~hit(signs[j])
        ELSE 0

\* getSignByGloss(gloss = '') of any argument: gloss.toUpperCase is a
\* TypeError unless gloss is a string (or undefined, which the default
\* replaces)
getSignByGlossOfValue(gloss) ==
  IF gloss.t = "undefined" THEN [threw |-> FALSE, sign |-> getSignByGloss(<< >>)]
  ELSE IF gloss.t = "string" THEN [threw |-> FALSE, sign |-> getSignByGloss(gloss.s)]
  ELSE [threw |-> TRUE, sign |-> 0]

-----------------------------------------------------------------------------
(* The vector index: what one search call may give back *)

\* an entry of a search result: a point id, a score in twentieths (or
\* none), a payload (or none)
Point(id, hasScore, score, payload) ==
  [id |-> id, hasScore |-> hasScore, score |-> score, payload |-> payload]

NoPayload ==
  [ defined |-> FALSE, id |-> JUndefined, gloss |-> JUndefined, videoFile |-> JUndefined,
    thumbnail |-> JUndefined, durationMs |-> 0 ]

PayloadOf(sign) ==
  [ defined |-> TRUE, id |-> JStr(sign.id), gloss |-> JStr(sign.gloss),
    videoFile |-> JStr(sign.videoFile), thumbnail |-> JStr(sign.thumbnail),
    durationMs |-> sign.durationMs ]

\* how the index answers the i-th query of one search, by scenario; "throw"
\* is a transport failure of that query
QdrantScenarios ==
  {"empty", "hits", "negative", "bare", "no-asset", "first-fails", "last-fails"}

QdrantAnswer(scenario, i, n) ==
  CASE scenario = "empty" -> [threw |-> FALSE, entries |-> << >>]
    [] scenario = "hits" ->
         [threw |-> FALSE,
          entries |-> << Point(1, TRUE, 10 + i, PayloadOf(signs[1])),
                         Point(3, TRUE, 18 - i, PayloadOf(signs[3])) >>]
    [] scenario = "negative" ->
         [threw |-> FALSE, entries |-> << Point(2, TRUE, -4 - i, PayloadOf(signs[2])) >>]
    [] scenario = "bare" ->
         [threw |-> FALSE, entries |-> << Point(7, FALSE, 0, NoPayload) >>]
    [] scenario = "no-asset" ->
         [threw |-> FALSE,
          entries |-> << Point(1, TRUE, 15,
                               [PayloadOf(signs[1]) EXCEPT !.videoFile = JUndefined,
                                                           !.thumbnail = JUndefined]) >>]
    [] scenario = "first-fails" -> [threw |-> i = 1, entries |-> << >>]
    [] scenario = "last-fails" ->
         [threw |-> i = n,
          entries |-> << Point(1, TRUE, 12, PayloadOf(signs[1])) >>]

\* the loop of mergeQdrantResponses over one entry: aggregated is the Map,
\* as the list of its [key, value] pairs in insertion order
MergeEntry(aggregated, entry) ==
  LET id == IF Truthy(entry.payload.id) THEN entry.payload.id ELSE JNum(entry.id)
      score == IF entry.hasScore THEN PlainScore(entry.score) ELSE PlainScore(0)
      fresh == [payload |-> entry.payload, score |-> PlainScore(0)]
      known == \E k \in DOMAIN aggregated : aggregated[k].key = id
      at == IF known THEN CHOOSE k \in DOMAIN aggregated : aggregated[k].key = id ELSE 0
      current == IF known THEN aggregated[at].value ELSE fresh
      updated == [current EXCEPT !.score =
                    IF CompareScores(score, @) > 0 THEN score ELSE @]
  IN  IF known THEN [aggregated EXCEPT ![at].value = updated]
      ELSE Append(aggregated, [key |-> id, value |-> updated])

RECURSIVE MergeEntries(_, _)
MergeEntries(aggregated, entries) ==
  IF entries = << >> THEN aggregated
  ELSE MergeEntries(MergeEntry(aggregated, Head(entries)), Tail(entries))

RECURSIVE Flatten(_)
Flatten(lists) == IF lists = << >> THEN << >> ELSE Head(lists) \o Flatten(Tail(lists))

mergeQdrantResponses(responses, topK) ==
  LET aggregated == MergeEntries(<< >>, Flatten(responses))
      values == [k \in DOMAIN aggregated |-> aggregated[k].value]
      top == Slice(SortByScore(values), topK)
  IN  [k \in DOMAIN top |->
         Match(top[k].payload.id, top[k].payload.gloss, top[k].payload.videoFile,
               top[k].payload.thumbnail, top[k].payload.durationMs, top[k].score)]

-----------------------------------------------------------------------------
(* services/pipeline.js *)

TopK == 8

DefaultDurationMs == 2000

\* a resolver that takes only http:// for an absolute URL
buildAssetUrlPlainHttp(fileName) ==
  IF ~Truthy(fileName) THEN << >>
  ELSE IF StartsWith(fileName.s, << "h","t","t","p",":","/","/" >>) THEN fileName.s
  ELSE CdnBaseUrl \o fileName.s

\* buildAssetUrl, of a field that is a string or missing
buildAssetUrl(fileName) ==
  IF ~Truthy(fileName) THEN << >>
  ELSE IF StartsWith(fileName.s, << "h","t","t","p" >>) THEN fileName.s
  ELSE CdnBaseUrl \o fileName.s

\* what withAssetUrls reads of its second argument: a match, a catalogue
\* record, or null
SignOfMatch(match) ==
  [ gloss |-> match.gloss, hasScore |-> TRUE, score |-> match.score,
    videoFile |-> match.videoFile, thumbnail |-> match.thumbnail,
    durationMs |-> match.durationMs ]

SignOfRecord(sign) ==
  [ gloss |-> JStr(sign.gloss), hasScore |-> FALSE, score |-> PlainScore(0),
    videoFile |-> JStr(sign.videoFile), thumbnail |-> JStr(sign.thumbnail),
    durationMs |-> sign.durationMs ]

NullSign ==
  [ gloss |-> JUndefined, hasScore |-> FALSE, score |-> PlainScore(0),
    videoFile |-> JUndefined, thumbnail |-> JUndefined, durationMs |-> 0 ]

withAssetUrls(requestedGloss, sign) ==
  [ gloss |-> IF Truthy(sign.gloss) THEN sign.gloss.s ELSE requestedGloss,
    requestedGloss |-> requestedGloss,
    score |-> IF sign.hasScore THEN sign.score ELSE PlainScore(8),
    videoUrl |-> buildAssetUrl(sign.videoFile),
    thumbnailUrl |-> buildAssetUrl(sign.thumbnail),
    durationMs |-> OrElseNum(sign.durationMs, DefaultDurationMs) ]

\* lookup.get(key) on new Map(matches.map((match) => [match.gloss, match])):
\* the last match of that gloss; 0 stands for undefined
LookupGet(lookup, key) ==
  IF \E i \in DOMAIN lookup : lookup[i].gloss = JStr(key)
    THEN CHOOSE i \in DOMAIN lookup :
           /\ lookup[i].gloss = JStr(key)
           /\ \A j \in (i + 1)..Len(lookup) : lookup[j].gloss # JStr(key)
    ELSE 0

\* a resolver that asks the catalogue before the matches
resolveVideoCatalogueFirst(gloss, lookup) ==
  LET exact == LookupGet(lookup, gloss)
      upper == LookupGet(lookup, toUpperCase(gloss))
      existing == IF exact # 0 THEN exact ELSE upper
      fallbackSign == getSignByGloss(gloss)
      defaultSign == getSignByGloss(Hello)
  IN  IF fallbackSign # 0 THEN withAssetUrls(gloss, SignOfRecord(signs[fallbackSign]))
      ELSE IF existing # 0 THEN withAssetUrls(gloss, SignOfMatch(lookup[existing]))
      ELSE IF defaultSign # 0 THEN withAssetUrls(gloss, SignOfRecord(signs[defaultSign]))
      ELSE withAssetUrls(gloss, NullSign)

\* a resolver that gives an unknown token no substitute
resolveVideoKeepsToken(gloss, lookup) ==
  LET exact == LookupGet(lookup, gloss)
      upper == LookupGet(lookup, toUpperCase(gloss))
      existing == IF exact # 0 THEN exact ELSE upper
      fallbackSign == getSignByGloss(gloss)
  IN  IF existing # 0 THEN withAssetUrls(gloss, SignOfMatch(lookup[existing]))
      ELSE IF fallbackSign # 0 THEN withAssetUrls(gloss, SignOfRecord(signs[fallbackSign]))
      ELSE withAssetUrls(gloss, NullSign)

resolveVideo(gloss, lookup) ==
  LET exact == LookupGet(lookup, gloss)
      upper == LookupGet(lookup, toUpperCase(gloss))
      existing == IF exact # 0 THEN exact ELSE upper
      fallbackSign == getSignByGloss(gloss)
      defaultSign == getSignByGloss(Hello)
  IN  IF existing # 0 THEN withAssetUrls(gloss, SignOfMatch(lookup[existing]))
      ELSE IF fallbackSign # 0 THEN withAssetUrls(gloss, SignOfRecord(signs[fallbackSign]))
      ELSE IF defaultSign # 0 THEN withAssetUrls(gloss, SignOfRecord(signs[defaultSign]))
      ELSE withAssetUrls(gloss, NullSign)

\* [...keywords]: the elements of an array, the characters of a string
Spread(v) == IF v.t = "string" THEN [i \in DOMAIN v.s |-> JStr(<< v.s[i] >>)] ELSE v.a

\* a query that keeps every keyword and every token, repeated or not
QueryKeywordsRepeated(keywords, glossSequence) ==
  Spread(keywords)
    \o [i \in DOMAIN glossSequence.a |-> JStr(toLowerCase(glossSequence.a[i].s))]

\* the first argument of searchByKeywords, glossSequence being an array of
\* strings
QueryKeywords(keywords, glossSequence) ==
  Unique(Spread(keywords)
           \o [i \in DOMAIN glossSequence.a |-> JStr(toLowerCase(glossSequence.a[i].s))])

Strings(list) == [i \in DOMAIN list |-> list[i].s]

\* a destructured parameter with the default []: { glossSequence = [] }
OrEmptyArray(v) == IF v.t = "undefined" THEN JArr(<< >>) ELSE v

\* a builder that resolves each distinct token once
MappingOfDistinct(glossSequence, lookup) ==
  LET tokens == Unique(glossSequence.a)
      videos == [i \in DOMAIN tokens |-> resolveVideo(tokens[i].s, lookup)]
  IN  [ sequence |-> [i \in DOMAIN videos |-> videos[i].gloss],
        videos |-> videos,
        provider |-> IF lookup # << >> THEN "qdrant" ELSE "fallback" ]

\* the object buildSequence returns for the matches of searchByKeywords
MappingOf(glossSequence, lookup) ==
  LET videos == [i \in DOMAIN glossSequence.a |->
                   resolveVideo(glossSequence.a[i].s, lookup)]
  IN  [ sequence |-> [i \in DOMAIN videos |-> videos[i].gloss],
        videos |-> videos,
        provider |-> IF lookup # << >> THEN "qdrant" ELSE "fallback" ]

BuildSequenceDone(found) ==
  /\ matches' = found
  /\ mapping' = MappingOf(OrEmptyArray(simplified.glossSequence), found)
  /\ pc' = "done"
  /\ outcome' = Returned

BuildSequenceThrows ==
  /\ matches' = matches
  /\ mapping' = mapping
  /\ pc' = "done"
  /\ outcome' = Threw("TypeError")

\* buildSequence up to its await.  glossSequence.map throws unless
\* glossSequence is an array, gloss.toLowerCase unless each gloss is a
\* string, keyword.toLowerCase (in keywordToVector and in fallbackSearch)
\* unless each keyword is one.
BuildSequence ==
  /\ pc = "buildSequence"
  /\ UNCHANGED << cfg, probe, parked, extension, req, text, transcript, localReply, reply, simplified, timer, endpointSilent >>
  /\ IF ~IsStringArray(OrEmptyArray(simplified.glossSequence))
       THEN BuildSequenceThrows /\ UNCHANGED << query, calls >>
     ELSE LET keywords == QueryKeywords(OrEmptyArray(simplified.keywords),
                                        OrEmptyArray(simplified.glossSequence))
          IN  /\ query' = keywords
              /\ IF keywords = << >>
                   THEN BuildSequenceDone(<< >>) /\ calls' = calls
                 ELSE IF \E i \in DOMAIN keywords : keywords[i].t # "string"
                   THEN BuildSequenceThrows /\ calls' = calls
                 ELSE IF cfg.hasQdrant
                   THEN /\ pc' = "qdrantSearch"
                        /\ calls' = Append(calls, "qdrant")
                        /\ UNCHANGED << matches, mapping, outcome >>
                 ELSE BuildSequenceDone(fallbackSearch(Strings(keywords), TopK))
                        /\ calls' = calls

\* a search that lets the failure of a remote query reach its caller
QdrantSearchFailurePropagates ==
  /\ calls' = Append(calls, "qdrant-failed")
  /\ BuildSequenceThrows

\* catch (error): the failure is logged and the local search answers
QdrantSearchFailed ==
  /\ calls' = Append(calls, "qdrant-failed")
  /\ BuildSequenceDone(fallbackSearch(Strings(query), TopK))

\* Promise.all over the per-keyword searches settles: every query answered,
\* or one of them failed and the local search serves the request
QdrantSearchSettles ==
  /\ pc = "qdrantSearch"
  /\ UNCHANGED << cfg, probe, parked, extension, req, text, transcript, localReply, reply, simplified, query, timer,
                  endpointSilent >>
  /\ \E scenario \in QdrantScenarios :
       LET n == Len(query)
           answers == [i \in 1..n |-> QdrantAnswer(scenario, i, n)]
       IN  IF \E i \in 1..n : answers[i].threw
             THEN QdrantSearchFailed
             ELSE /\ calls' = calls
                  /\ BuildSequenceDone(
                       mergeQdrantResponses([i \in 1..n |-> answers[i].entries], TopK))

Next ==
  \/ Call
  \/ TranscribeAudio
  \/ LocalSttFetchSettles
  \/ LocalSttBodySettles
  \/ TimerTick
  \/ AbortTimerFires
  \/ CloudSttSettles
  \/ SimplifySentence
  \/ CloudSimplifySettles
  \/ BuildSequence
  \/ QdrantSearchSettles

Spec == Init /\ [][Next]_vars

-----------------------------------------------------------------------------
(* Two requests in flight at once.  Node runs one request until it awaits, *)
(* then any other; the request that is not running waits in parked.        *)

\* the calls and inputs followed when two requests run together
Focus ==
  /\ req.op \in {"", "interpretText", "interpretAudio"}
  /\ req.locale = ""
  /\ req.audioBase64 = (IF req.op = "interpretAudio" THEN "QUJD" ELSE "")
  /\ req.op = "interpretText" =>
       text \in { JStr(<< "G","o",","," ","g","o"," ","t","o"," ","i","t" >>),
                  JStr(<< " ","H","i","!","\n" >>) }
  /\ reply.raw \in { << >>, SampleObject, << Prose >> \o SampleObject \o << Prose >> }
  /\ ~endpointSilent

\* the running request goes on to its next await
Resume == Next /\ Focus'

\* a request that keeps simplified where the other request finds it
SwitchSharingSimplified ==
  /\ Loaded # parked
  /\ parked' = [Loaded EXCEPT !.simplified = parked.simplified]
  /\ req' = parked.req
  /\ pc' = parked.pc
  /\ text' = parked.text
  /\ transcript' = parked.transcript
  /\ localReply' = parked.localReply
  /\ reply' = parked.reply
  /\ simplified' = simplified
  /\ query' = parked.query
  /\ matches' = parked.matches
  /\ mapping' = parked.mapping
  /\ outcome' = parked.outcome
  /\ calls' = parked.calls
  /\ timer' = parked.timer
  /\ endpointSilent' = parked.endpointSilent
  /\ UNCHANGED << cfg, probe, extension >>

\* the running request awaits and the waiting one runs: each takes its own
\* arguments and locals (transcriptResult, simplified, matches, mapping) along
Switch ==
  /\ Loaded # parked
  /\ parked' = Loaded
  /\ req' = parked.req
  /\ pc' = parked.pc
  /\ text' = parked.text
  /\ transcript' = parked.transcript
  /\ localReply' = parked.localReply
  /\ reply' = parked.reply
  /\ simplified' = parked.simplified
  /\ query' = parked.query
  /\ matches' = parked.matches
  /\ mapping' = parked.mapping
  /\ outcome' = parked.outcome
  /\ calls' = parked.calls
  /\ timer' = parked.timer
  /\ endpointSilent' = parked.endpointSilent
  /\ UNCHANGED << cfg, probe, extension >>

ConcurrentNext ==
  \/ Resume
  \/ Switch

\* the local STT endpoint is switched off: transcription asks the cloud or
\* answers with the mock transcript
ConcurrentInit == Init /\ ~cfg.localSttEnabled

ConcurrentSpec == ConcurrentInit /\ [][ConcurrentNext]_vars

\* what simplifySentence gives a request that is alone, from that request's
\* text and from the reply its own /translate call got
SimplifiedAlone(f) ==
  LET mock == mockSimplification(f.text)
      parsed == parseJsonFromText(f.reply.raw)
      res == CloudSimplification(parsed.obj, f.text)
  IN  IF "cloud-text" \notin Range(f.calls) \/ f.reply.threw THEN mock.val
      ELSE IF parsed.ok /\ res.ok THEN res.val
      ELSE mock.val

\* what searchByKeywords may give a request that is alone, from that
\* request's query and from what its own searches were answered
MatchesAlone(f) ==
  LET n == Len(f.query)
      answers(scenario) == [i \in 1..n |-> QdrantAnswer(scenario, i, n)]
  IN  IF n = 0 THEN { << >> }
      ELSE IF "qdrant" \notin Range(f.calls) \/ "qdrant-failed" \in Range(f.calls)
        THEN { fallbackSearch(Strings(f.query), TopK) }
      ELSE { mergeQdrantResponses([i \in 1..n |-> answers(scenario)[i].entries], TopK) :
               scenario \in { sc \in QdrantScenarios :
                                \A i \in 1..n : ~answers(sc)[i].threw } }

\* a request that returned has the result it has when it is served alone
OwnResult(f) ==
  (f.pc = "done" /\ f.outcome = Returned) =>
    /\ f.req.op = "interpretAudio" => f.text = f.transcript.text
    /\ f.simplified = SimplifiedAlone(f)
    /\ f.query = QueryKeywords(OrEmptyArray(f.simplified.keywords),
                               OrEmptyArray(f.simplified.glossSequence))
    /\ f.matches \in MatchesAlone(f)
    /\ f.mapping = MappingOf(OrEmptyArray(f.simplified.glossSequence), f.matches)

\* C22: interpretAudio / interpretText requests in flight at once are
\* independent: each returns what it returns when served alone with the same
\* backend replies, a step of one request leaves the other request's
\* arguments and results as they are, and no request changes the
\* configuration the others read.
C22_ConcurrentRequestsIndependent ==
  /\ [](OwnResult(Loaded) /\ OwnResult(parked))
  /\ [][/\ cfg' = cfg
        /\ \/ parked' = parked
           \/ parked' = Loaded /\ Loaded' = parked]_vars

\* an interpretText request has returned its signs while another request,
\* called in between with another text, still awaits its search
C22_Witness ==
  /\ Loaded.req.op = "interpretText"
  /\ Loaded.pc = "done"
  /\ Loaded.outcome = Returned
  /\ Loaded.mapping.videos # << >>
  /\ "cloud-text" \in Range(Loaded.calls)
  /\ parked.req.op \in {"interpretText", "interpretAudio"}
  /\ parked.pc = "qdrantSearch"
  /\ parked.text # Loaded.text

-----------------------------------------------------------------------------
(* Properties of the transcription ladder *)

IsTranscriptionEvent(c) ==
  c \in {"local", "local-failed", "cloud", "cloud-failed", "mock"}

\* the tiers transcribeAudio tried and the failures it caught, in order
TranscriptionEvents == SelectSeq(calls, IsTranscriptionEvent)

\* the tier whose text transcribeAudio returned
ProducingTier ==
  IF transcript = NoTranscript \/ TranscriptionEvents = << >> THEN "none"
  ELSE TranscriptionEvents[Len(TranscriptionEvents)]

TranscribeAudioOver == pc = "done" /\ req.op = "transcribeAudio"

\* C1: interpretAudio called with a non-empty audio payload returns a
\* complete result (transcript, simplified, mapping) whatever the backends
\* do; no error reaches the caller.
C1_InterpretAudioAlwaysReturns ==
  (pc = "done" /\ req.op = "interpretAudio" /\ req.audioBase64 # "") =>
     /\ outcome = Returned
     /\ transcript # NoTranscript
     /\ simplified # NoSimplified
     /\ mapping # NoMapping

\* C2: transcribeAudio raises only when the audio payload is missing or
\* empty; for a non-empty payload it returns a TranscriptionResult.
C2_RaisesOnlyOnEmptyPayload ==
  TranscribeAudioOver =>
     IF req.audioBase64 = ""
       THEN outcome = Threw("audioBase64 payload missing")
       ELSE outcome = Returned /\ transcript # NoTranscript

\* C3: with local STT enabled, the local tier giving no result and no cloud
\* key configured, transcribeAudio returns the fixed mock transcript with
\* provider mock, the mock confidence, and the requested locale or, when
\* none was requested, the fallback locale.
C3_LocalFailureWithoutKeyGivesMock ==
  ( /\ TranscribeAudioOver
    /\ req.audioBase64 # ""
    /\ cfg.localSttEnabled
    /\ ~cfg.hasApiKey
    /\ ProducingTier # "local" ) =>
     /\ outcome = Returned
     /\ transcript =
          [ text |-> JStr(MockTranscript),
            locale |-> IF req.locale # "" THEN req.locale ELSE FallbackLocale,
            confidence |-> MockConfidence,
            provider |-> "mock" ]

\* C4: with local STT enabled and a local endpoint that never responds, the
\* call does not stay suspended on it: once transcribeAudio is over it has
\* returned a result, and that result comes from the cloud or the mock tier.
C4_SilentEndpointEndsInCloudOrMock ==
  ( /\ TranscribeAudioOver
    /\ req.audioBase64 # ""
    /\ cfg.localSttEnabled
    /\ endpointSilent ) =>
     /\ outcome = Returned
     /\ ProducingTier \in {"cloud", "mock"}

\* C5: in one transcribeAudio call each tier is tried at most once and in
\* the order local, cloud, mock; the cloud call is issued only after the
\* local attempt failed or when local STT is disabled, the mock only after
\* the cloud call failed or when no cloud key is configured; no tier is
\* retried.
C5_EachTierOnceInOrder ==
  LET T == TranscriptionEvents
      After(i, e) == i > 1 /\ T[i - 1] = e
  IN  /\ \A i, j \in DOMAIN T : T[i] = T[j] => i = j
      /\ \A i \in DOMAIN T :
           /\ T[i] = "local" => i = 1 /\ cfg.localSttEnabled
           /\ T[i] = "local-failed" => After(i, "local")
           /\ T[i] = "cloud" =>
                /\ cfg.hasApiKey
                /\ IF cfg.localSttEnabled THEN After(i, "local-failed") ELSE i = 1
           /\ T[i] = "cloud-failed" => After(i, "cloud")
           /\ T[i] = "mock" =>
                IF cfg.hasApiKey THEN After(i, "cloud-failed")
                ELSE IF cfg.localSttEnabled THEN After(i, "local-failed")
                ELSE i = 1

\* all three tiers were tried, and the mock answered
C5_Witness ==
  /\ TranscriptionEvents = << "local", "local-failed", "cloud", "cloud-failed", "mock" >>
  /\ transcript.provider = "mock"

\* C6 as stated: the provider of every returned TranscriptionResult is one
\* of local, cloud, mock and names the tier that produced the text.
C6_ProviderNamesTier ==
  transcript # NoTranscript =>
     /\ transcript.provider \in {"local", "cloud", "mock"}
     /\ transcript.provider = ProducingTier

\* C6 as the code has it: the provider is "mock" for the mock tier, "gemini"
\* for the cloud tier and, for the local tier, the provider field of the
\* local reply when it has one, else the client's default local tag.
C6_ProviderTagOfTier ==
  transcript # NoTranscript =>
     CASE ProducingTier = "mock" -> transcript.provider = "mock"
       [] ProducingTier = "cloud" -> transcript.provider = "gemini"
       [] ProducingTier = "local" ->
            /\ localReply.received
            /\ transcript.provider =
                 IF localReply.provider # "" THEN localReply.provider
                 ELSE DefaultLocalProvider(cfg.client)
       [] OTHER -> FALSE

\* the local tier answered with a reply that calls itself mock
C6_Witness ==
  /\ TranscribeAudioOver
  /\ ProducingTier = "local"
  /\ transcript.provider = "mock"

\* C7: every TranscriptionResult that transcribeAudio returns has a
\* non-empty text, also after a local reply without text or a cloud
\* transcript that is blank once trimmed.
C7_TextNeverEmpty ==
  transcript # NoTranscript => transcript.text # JStr(<< >>)

-----------------------------------------------------------------------------
(* Properties of the simplification *)

\* simplifySentence was called on a non-empty string and is over
SimplifySentenceOver ==
  /\ pc \in {"buildSequence", "qdrantSearch", "done"}
  /\ text.t = "string"
  /\ Len(text.s) > 0

\* the decoded cloud reply has fields of the shapes the prompt asks for
WellShaped(parsed) ==
  /\ parsed.normalizedText.t \in {"undefined", "string"}
  /\ parsed.keywords.t = "undefined" \/ IsStringArray(parsed.keywords)
  /\ parsed.glossSequence.t = "undefined" \/ IsStringArray(parsed.glossSequence)

\* the cloud call threw, or its reply has no brace pair, does not decode,
\* or decodes to a field of an unusable shape
CloudSimplifyFailed ==
  \/ reply.threw
  \/ ~parseJsonFromText(reply.raw).ok
  \/ ~WellShaped(parseJsonFromText(reply.raw).obj)

\* C8: without a cloud key, simplifySentence on a non-empty text issues no
\* network call and returns normalizedText = normalizeSentence(text),
\* keywords = extractKeywords(text), glossSequence = those keywords
\* uppercased position by position, provider = fallback.
C8_NoKeyGivesHeuristic ==
  (~cfg.hasApiKey /\ SimplifySentenceOver) =>
     /\ \A i \in DOMAIN calls : calls[i] # "cloud-text"
     /\ simplified.provider = "fallback"
     /\ simplified.normalizedText = JStr(normalizeSentence(text.s))
     /\ simplified.keywords = StringArray(extractKeywords(text.s, DefaultKeywordLimit))
     /\ simplified.glossSequence.t = "array"
     /\ Len(simplified.glossSequence.a) = Len(simplified.keywords.a)
     /\ \A i \in DOMAIN simplified.keywords.a :
          simplified.glossSequence.a[i] = JStr(toUpperCase(simplified.keywords.a[i].s))

\* /translate of "Go, go to it" without a key: the glosses GO and IT
C8_Witness ==
  /\ ~cfg.hasApiKey
  /\ req.op = "simplifySentence"
  /\ pc = "done"
  /\ outcome = Returned
  /\ text = JStr(<< "G","o",","," ","g","o"," ","t","o"," ","i","t" >>)
  /\ simplified.glossSequence = JArr(<< JStr(<< "G","O" >>), JStr(<< "I","T" >>) >>)

\* C9: with a cloud key, when the cloud simplification fails in any way
\* (the call throws, the reply has no brace pair, does not decode, or a
\* decoded field has an unusable shape), simplifySentence returns exactly
\* the heuristic result of the text and raises nothing.
C9_FailureGivesHeuristic ==
  (cfg.hasApiKey /\ SimplifySentenceOver /\ CloudSimplifyFailed) =>
     /\ simplified # NoSimplified
     /\ simplified = mockSimplification(text).val

\* C10: when the cloud reply decodes, each field of the result is the
\* model-supplied value if that is non-empty, else the heuristic:
\* normalizeSentence(text), extractKeywords(text), the uppercased keywords;
\* with empty keywords and an empty glossSequence the glossSequence is the
\* uppercased extractKeywords(text).
C10_FieldwiseSubstitution ==
  ( /\ cfg.hasApiKey
    /\ SimplifySentenceOver
    /\ ~CloudSimplifyFailed ) =>
     LET parsed == parseJsonFromText(reply.raw).obj
     IN  /\ simplified.normalizedText =
              IF HasLength(parsed.normalizedText) THEN parsed.normalizedText
              ELSE JStr(normalizeSentence(text.s))
         /\ simplified.keywords =
              IF HasLength(parsed.keywords) THEN parsed.keywords
              ELSE StringArray(extractKeywords(text.s, DefaultKeywordLimit))
         /\ simplified.glossSequence =
              IF HasLength(parsed.glossSequence) THEN parsed.glossSequence
              ELSE UpperAll(simplified.keywords)


-----------------------------------------------------------------------------
(* Properties of the rejected calls *)

\* simplifySentence was called: directly, or by a pipeline that got that far
SimplifySentenceCalled ==
  \/ req.op \in {"simplifySentence", "interpretText"}
  \/ req.op = "interpretAudio" /\ transcript # NoTranscript

\* C11: a call that violates its precondition ends in an explicit error,
\* before any backend is contacted and with no default result in its place:
\* transcribeAudio without audio raises and tries neither the local nor the
\* cloud tier, simplifySentence without text raises and makes no cloud call.
C11_PreconditionErrorsAreExplicit ==
  /\ ( /\ pc = "done"
       /\ req.op \in {"transcribeAudio", "interpretAudio"}
       /\ req.audioBase64 = "" ) =>
        /\ outcome = Threw("audioBase64 payload missing")
        /\ transcript = NoTranscript
        /\ calls = << >>
  /\ (pc = "done" /\ SimplifySentenceCalled /\ ~Truthy(text)) =>
        /\ outcome = Threw("Text is required for translation")
        /\ simplified = NoSimplified
        /\ \A i \in DOMAIN calls : calls[i] # "cloud-text"

\* the empty payload is rejected where both speech backends are configured
C11_Witness ==
  /\ pc = "done"
  /\ req.op = "transcribeAudio"
  /\ req.audioBase64 = ""
  /\ cfg.localSttEnabled
  /\ cfg.hasApiKey
  /\ outcome.kind = "throw"

-----------------------------------------------------------------------------
(* Properties of the sign sequence builder *)

\* buildSequence was called: directly, or by a pipeline that got that far
BuildSequenceCalled ==
  \/ req.op = "buildSequence"
  \/ req.op \in {"interpretAudio", "interpretText"} /\ simplified # NoSimplified

\* the gloss sequence buildSequence works on
GlossTokens == OrEmptyArray(simplified.glossSequence)

\* the arguments are lists of words
WordArguments ==
  /\ IsStringArray(GlossTokens)
  /\ \/ OrEmptyArray(simplified.keywords).t = "string"
     \/ IsStringArray(OrEmptyArray(simplified.keywords))

\* C12: for a gloss sequence of N tokens (duplicates and unknown tokens
\* included, keywords being words) and whatever the matcher returned,
\* buildSequence returns N video entries and N resolved glosses, entry i
\* carrying the i-th token as requestedGloss; for N = 0 it returns an empty
\* list and raises nothing.
C12_OneEntryPerToken ==
  (pc = "done" /\ BuildSequenceCalled /\ WordArguments) =>
     /\ outcome = Returned
     /\ Len(mapping.videos) = Len(GlossTokens.a)
     /\ Len(mapping.sequence) = Len(GlossTokens.a)
     /\ \A i \in DOMAIN GlossTokens.a :
          /\ mapping.videos[i].requestedGloss = GlossTokens.a[i].s
          /\ mapping.sequence[i] = mapping.videos[i].gloss

\* hello, HELLO, hello against a matcher that found something
C12_Witness ==
  /\ pc = "done"
  /\ req.op = "buildSequence"
  /\ matches # << >>
  /\ Len(GlossTokens.a) = 3
  /\ GlossTokens.a[1] = GlossTokens.a[3]
  /\ Len(mapping.videos) = 3

\* C13: every entry buildSequence returns is playable: its videoUrl is a
\* non-empty fully-qualified URL, for a token resolved from the matches,
\* from the catalogue or by substitution, whatever fields the match or the
\* record carries.
C13_EveryEntryPlayable ==
  (pc = "done" /\ BuildSequenceCalled /\ outcome = Returned) =>
     \A i \in DOMAIN mapping.videos :
        \/ StartsWith(mapping.videos[i].videoUrl, << "h","t","t","p",":","/","/" >>)
        \/ StartsWith(mapping.videos[i].videoUrl, << "h","t","t","p","s",":","/","/" >>)

\* the token is the gloss of no match, as given or in upper case, and
\* neither the gloss nor the id of a catalogue record
UnknownToken(token) ==
  /\ \A k \in DOMAIN matches :
        matches[k].gloss \notin {JStr(token), JStr(toUpperCase(token))}
  /\ \A r \in DOMAIN signs :
        signs[r].gloss # toUpperCase(token) /\ signs[r].id # toLowerCase(token)

\* C14: a token found neither among the matches nor in the catalogue is
\* resolved to the default gloss HELLO, and requestedGloss keeps the token.
C14_UnknownTokenGivesHello ==
  (pc = "done" /\ BuildSequenceCalled /\ outcome = Returned) =>
     \A i \in DOMAIN mapping.videos :
        UnknownToken(GlossTokens.a[i].s) =>
           /\ mapping.videos[i].gloss = << "H","E","L","L","O" >>
           /\ mapping.videos[i].requestedGloss = GlossTokens.a[i].s

\* MEETING, XYZ against a matcher that found something: XYZ becomes HELLO
C14_Witness ==
  /\ pc = "done"
  /\ matches # << >>
  /\ Len(mapping.videos) = 2
  /\ mapping.videos[2].requestedGloss = << "X","Y","Z" >>
  /\ mapping.videos[2].gloss = << "H","E","L","L","O" >>
  /\ mapping.videos[1].gloss = << "M","E","E","T","I","N","G" >>

-----------------------------------------------------------------------------
(* Properties of the matcher *)

\* the local strategy answered the search of buildSequence
LocalStrategyAnswered ==
  /\ pc = "done"
  /\ BuildSequenceCalled
  /\ outcome = Returned
  /\ \/ \A i \in DOMAIN calls : calls[i] # "qdrant"
     \/ \E i \in DOMAIN calls : calls[i] = "qdrant-failed"

\* C16: with the vector index configured and one of the per-keyword queries
\* failing, searchByKeywords raises nothing and returns what the local
\* strategy returns for the same keywords and topK.
C16_RemoteFailureGivesLocalResult ==
  (pc = "done" /\ \E i \in DOMAIN calls : calls[i] = "qdrant-failed") =>
     /\ outcome = Returned
     /\ mapping # NoMapping
     /\ matches = fallbackSearch(Strings(query), TopK)

\* the last of several queries failed and the local search found something
C16_Witness ==
  /\ pc = "done"
  /\ cfg.hasQdrant
  /\ calls # << >>
  /\ calls[Len(calls)] = "qdrant-failed"
  /\ Len(query) > 1
  /\ matches # << >>
  /\ mapping.provider = "qdrant"

\* the record shares no keyword and no topic with the query and its
\* embedding has cosine 0 with the vector of the first keyword
ScoresNothing(sign) ==
  LET words == { toLowerCase(query[i].s) : i \in DOMAIN query }
      first == toLowerCase(query[1].s)
  IN  /\ \A k \in DOMAIN sign.keywords : sign.keywords[k] \notin words
      /\ \A t \in DOMAIN sign.topics : sign.topics[t] \notin words
      /\ cosineSimilarity(keywordToVector(first), Vector(sign.embedding)).dot = 0

\* C17: the local strategy returns no record with zero keyword overlap, no
\* topic match and zero cosine similarity, and every match it returns has a
\* score above 0 (a sum of non-negative terms, one of them positive).
C17_LocalMatchesScorePositive ==
  LocalStrategyAnswered =>
     /\ \A k \in DOMAIN matches :
          /\ matches[k].score.lex >= 0
          /\ matches[k].score.dot >= 0
          /\ matches[k].score.lex > 0 \/ matches[k].score.dot > 0
     /\ \A r \in DOMAIN signs :
          (query # << >> /\ ScoresNothing(signs[r])) =>
             \A k \in DOMAIN matches : matches[k].gloss # JStr(signs[r].gloss)

\* a local search that found some records and left out one that scores 0
C17_Witness ==
  /\ LocalStrategyAnswered
  /\ matches # << >>
  /\ \E r \in DOMAIN signs : ScoresNothing(signs[r])


-----------------------------------------------------------------------------
(* The helpers applied on their own, to arguments of every shape *)

MaxTextLen == 3

\* the variables of a call being served
serving ==
  << cfg, req, pc, text, transcript, localReply, reply, simplified, query, matches, mapping,
     outcome, calls, timer, endpointSilent >>

\* one application, of fn to arg
Applied(fn, arg, result) == [fn |-> fn, arg |-> arg, result |-> result]

ApplyNormalizeSentence ==
  /\ probe = NoProbe
  /\ UNCHANGED << serving, parked, extension >>
  /\ \E n \in 0..MaxTextLen : \E x \in [1..n -> {"a", "B", "_", " ", "\n", "!", "-"}] :
       probe' = Applied("normalizeSentence", x, normalizeSentence(x))

ApplyBuildAssetUrl ==
  /\ probe = NoProbe
  /\ UNCHANGED << serving, parked, extension >>
  /\ \E fileName \in
       { JUndefined, JStr(<< >>),
         JStr(<< "h",".","w" >>),
         JStr(<< "/","t" >>),
         JStr(<< "h","t","t","p",":","/","/","c","/","t" >>),
         JStr(<< "h","t","t","p","s",":","/","/","c","/","t" >>),
         JStr(<< "H","T","T","P",":","/","/","c","/","t" >>),
         JStr(<< "f","t","p",":","/","/","c","/","t" >>),
         JStr(<< "h","t","t","p","x" >>) } :
     probe' = Applied("buildAssetUrl", fileName, buildAssetUrl(fileName))

ApplyCosineSimilarity ==
  LET vectors ==
        { keywordToVector(k) :
            k \in { << >>, << "g","o" >>, << "g","o","i","n","g" >> } }
        \cup { Vector(v) :
                 v \in { << >>, << 0 >>, << 0, 0, 0 >>, << 6 >>, << 6, 8, 0 >>, << 0, 0, 10 >>,
                         << 0, 5 >>, << 8, 0, 6, 2 >> } }
  IN  /\ probe = NoProbe
      /\ UNCHANGED << serving, parked, extension >>
      /\ \E vecA \in vectors, vecB \in vectors :
           probe' = Applied("cosineSimilarity", [a |-> vecA, b |-> vecB],
                            cosineSimilarity(vecA, vecB))

ApplyGetSignByGloss ==
  /\ probe = NoProbe
  /\ UNCHANGED << serving, parked, extension >>
  /\ \E gloss \in
       { JUndefined, JNum(5), JArr(<< >>), JStr(<< >>),
         JStr(<< "H","E","L","L","O" >>), JStr(<< "h","e","l","l","o" >>),
         JStr(<< "H","e","L","l","o" >>), JStr(<< "t","o","d","a","y" >>),
         JStr(<< "X","Y","Z" >>), JStr(<< "h","e","l","l","o"," " >>) } :
     probe' = Applied("getSignByGloss", gloss, getSignByGlossOfValue(gloss))

ApplyExtractKeywords ==
  /\ probe = NoProbe
  /\ UNCHANGED << serving, parked, extension >>
  /\ \E sentence \in
         { << >>, << "g","o" >>, << "t","h","e"," ","g","o" >>,
           << "G","o",","," ","g","o"," ","n","o","w","!" >>,
           << "a"," ","t","h","e" >>,
           << "h","i"," ","g","o"," ","n","o","w"," ","h","i" >> },
        limit \in {0, 1, 2, DefaultKeywordLimit} :
       probe' = Applied("extractKeywords", [text |-> sentence, limit |-> limit],
                        extractKeywords(sentence, limit))

\* the answers of the per-keyword queries of one search: up to two answers
\* of up to two points each, over two records and a point without payload
ApplyMergeQdrantResponses ==
  LET points ==
        { Point(1, TRUE, k, PayloadOf(signs[1])) : k \in {-8, 0, 12} }
        \cup { Point(2, TRUE, k, PayloadOf(signs[2])) : k \in {-4, 15} }
        \cup { Point(7, FALSE, 0, NoPayload) }
      answers == { << >> } \cup { << x >> : x \in points }
                   \cup { << x, y >> : x \in points, y \in points }
  IN  /\ probe = NoProbe
      /\ UNCHANGED << serving, parked, extension >>
      /\ \E n \in 1..2, topK \in {1, TopK} : \E responses \in [1..n -> answers] :
           probe' = Applied("mergeQdrantResponses",
                            [responses |-> responses, topK |-> topK],
                            mergeQdrantResponses(responses, topK))

\* the local search on its own: scored is the list fallbackSearch maps the
\* catalogue to, matches what it returns
ApplyFallbackSearch ==
  LET words == { << >>, << "h","i" >>, << "H","i" >>, << "n","o","w" >>, << "g","o" >>,
                 << "g","r","e","e","t","i","n","g" >>, << "i","t" >>, << "x","y","z" >> }
      queries == { << >> } \cup { << a >> : a \in words }
                   \cup { << a, b >> : a \in words, b \in words }
                   \cup { << << >>, << "h","i" >>, << "n","o","w" >> >>,
                          << << >>, << "n","o","w" >>, << "g","o" >> >> }
  IN  /\ probe = NoProbe
      /\ UNCHANGED << serving, parked, extension >>
      /\ \E keywords \in queries, topK \in {1, 2, TopK} :
           LET keywordSet == Unique([i \in DOMAIN keywords |-> toLowerCase(keywords[i])])
           IN  probe' = Applied("fallbackSearch",
                                [keywords |-> keywords, topK |-> topK],
                                [scored |-> [i \in DOMAIN signs |->
                                               ScoredSign(signs[i], keywordSet).score],
                                 matches |-> fallbackSearch(keywords, topK)])

HelperNext ==
  \/ ApplyNormalizeSentence
  \/ ApplyBuildAssetUrl
  \/ ApplyCosineSimilarity
  \/ ApplyGetSignByGloss
  \/ ApplyExtractKeywords
  \/ ApplyMergeQdrantResponses
  \/ ApplyFallbackSearch

HelperSpec == Init /\ [][HelperNext]_vars

\* the text starts with a URL scheme: a letter, then letters, digits, +, -
\* or ., then a colon
HasUrlScheme(s) ==
  \E i \in 2..Len(s) :
     /\ s[i] = ":"
     /\ s[1] \in Range(LowerLetters) \cup Range(UpperLetters)
     /\ \A j \in 1..(i - 1) :
          s[j] \in Range(LowerLetters) \cup Range(UpperLetters) \cup Digits
                     \cup {"+", "-", "."}

\* C15 as stated: a filename that starts with a URL scheme is returned as
\* it is, every other non-empty filename as the CDN base URL followed by
\* the filename.
C15_SchemeVerbatimElseCdn ==
  (probe.fn = "buildAssetUrl" /\ Truthy(probe.arg)) =>
     probe.result =
       IF HasUrlScheme(probe.arg.s) THEN probe.arg.s ELSE CdnBaseUrl \o probe.arg.s

\* C15 as the code has it: a filename whose first four characters are
\* "http" is returned as it is, every other non-empty filename as the CDN
\* base URL followed by the filename.
C15_HttpPrefixVerbatimElseCdn ==
  (probe.fn = "buildAssetUrl" /\ Truthy(probe.arg)) =>
     LET name == probe.arg.s
     IN  IF Len(name) >= 4 /\ << name[1], name[2], name[3], name[4] >> = << "h","t","t","p" >>
           THEN probe.result = name
           ELSE /\ Len(probe.result) = Len(CdnBaseUrl) + Len(name)
                /\ SubSeq(probe.result, 1, Len(CdnBaseUrl)) = CdnBaseUrl
                /\ SubSeq(probe.result, Len(CdnBaseUrl) + 1, Len(probe.result)) = name

\* "httpx" has no scheme and is returned as it is
C15_Witness ==
  /\ probe.fn = "buildAssetUrl"
  /\ probe.arg = JStr(<< "h","t","t","p","x" >>)
  /\ probe.result = << "h","t","t","p","x" >>

\* a zero vector, an empty vector, or the vector of the empty keyword
Degenerate(vec) == vec.nan \/ \A i \in DOMAIN vec.v : vec.v[i] = 0

\* C18: cosineSimilarity returns 0, and neither throws nor returns NaN,
\* when one of its arguments is a zero vector, an empty vector or the
\* placeholder vector of the empty keyword.
C18_DegenerateVectorGivesZero ==
  ( /\ probe.fn = "cosineSimilarity"
    /\ Degenerate(probe.arg.a) \/ Degenerate(probe.arg.b) ) =>
     /\ ~probe.result.nan
     /\ probe.result.dot = 0

\* the vector of the empty keyword against a unit embedding
C18_Witness ==
  /\ probe.fn = "cosineSimilarity"
  /\ probe.arg.a = keywordToVector(<< >>)
  /\ probe.arg.b = Vector(<< 6, 8, 0 >>)
  /\ probe.result.dot = 0

\* C19: getSignByGloss finds a record whose gloss is the argument up to
\* case, else one whose id is the lowercased argument, returns null when
\* there is none, and throws for no argument.
C19_LookupNeverThrows ==
  probe.fn = "getSignByGloss" =>
     LET gloss == IF probe.arg.t = "string" THEN probe.arg.s ELSE << >>
         byGloss == { r \in DOMAIN signs :
                        toUpperCase(signs[r].gloss) = toUpperCase(gloss) }
         byId == { r \in DOMAIN signs : signs[r].id = toLowerCase(gloss) }
     IN  /\ ~probe.result.threw
         /\ IF byGloss # {} THEN probe.result.sign \in byGloss
            ELSE IF byId # {} THEN probe.result.sign \in byId
            ELSE probe.result.sign = 0

\* C20: normalizeSentence is idempotent: applied to its own result it
\* returns that result.
C20_NormalizeIdempotent ==
  probe.fn = "normalizeSentence" => normalizeSentence(probe.result) = probe.result

\* a text that normalizeSentence changes: " B!" becomes "b"
C20_Witness ==
  /\ probe.fn = "normalizeSentence"
  /\ probe.arg = << " ", "B", "!" >>
  /\ probe.result = << "b" >>


-----------------------------------------------------------------------------
(* Properties of keyword extraction and of the remote merge *)

\* C21: for every text and every limit, 0 included, extractKeywords returns
\* at most limit items, and no item twice
C21_AtMostLimitNoDuplicates ==
  probe.fn = "extractKeywords" =>
    /\ Len(probe.result) <= probe.arg.limit
    /\ \A i, j \in DOMAIN probe.result : probe.result[i] = probe.result[j] => i = j

\* the points the queries returned for the record id, over all answers
PointsOf(responses, id) ==
  LET all == Flatten(responses)
  IN  { k \in DOMAIN all :
          (IF Truthy(all[k].payload.id) THEN all[k].payload.id ELSE JNum(all[k].id)) = id }

\* C30: the merged result holds each matched record id once, its score is
\* the maximum score any query returned for that id (also when all of them
\* are negative or zero), in descending order of score, at most topK long
C30_MergeKeepsMaximumScore ==
  probe.fn = "mergeQdrantResponses" =>
    LET all == Flatten(probe.arg.responses)
        ids == { IF Truthy(all[k].payload.id) THEN all[k].payload.id ELSE JNum(all[k].id) :
                   k \in DOMAIN all }
        merged == probe.result
        scoreOf(k) == IF all[k].hasScore THEN PlainScore(all[k].score) ELSE PlainScore(0)
    IN  /\ Len(merged) = (IF Cardinality(ids) < probe.arg.topK
                            THEN Cardinality(ids) ELSE probe.arg.topK)
        /\ \A i, j \in DOMAIN merged : merged[i].id = merged[j].id => i = j
        /\ \A i \in DOMAIN merged :
             \E id \in ids :
               /\ (merged[i].id = id \/ (merged[i].id = JUndefined /\ id.t = "number"))
               /\ \E k \in PointsOf(probe.arg.responses, id) :
                    /\ merged[i].score = scoreOf(k)
                    /\ \A l \in PointsOf(probe.arg.responses, id) :
                         CompareScores(scoreOf(l), scoreOf(k)) <= 0
        /\ \A i, j \in DOMAIN merged :
             i < j => CompareScores(merged[i].score, merged[j].score) >= 0

-----------------------------------------------------------------------------
(* service-worker.js: the message handlers of the extension's worker.  A   *)
(* handler runs from one await to the next; the tab and the backend are    *)
(* the environment.                                                        *)

\* how many messages (toggles, status reports, audio chunks) the worker is
\* sent in one run
MaxMessages == 3

\* what no handler of the worker touches
outsideWorker == << serving, probe, parked, page, media, pending >>

\* the tab the popup was opened on, and whose content script captures
OwningTab == 1

DEMO_SIGN_SEQUENCES ==
  LET today == << "T","O","D","A","Y" >>
      meeting == << "M","E","E","T","I","N","G" >>
  IN  << << Hello, today, meeting >>, << today, meeting >>, << Hello, meeting >>,
         << Hello, today >>, << meeting >> >>

\* a fallback that always plays the first demo sequence
getDemoGlossesFirst(chunkCount) == DEMO_SIGN_SEQUENCES[1]

getDemoGlosses(chunkCount) ==
  DEMO_SIGN_SEQUENCES[(chunkCount % Len(DEMO_SIGN_SEQUENCES)) + 1]

\* what sendChunkToBackend gives: the decoded body of a 2xx reply, or the
\* error thrown for a network failure or another status
NoResponse == [ok |-> FALSE, glossSequence |-> << >>, videos |-> << >>]

BackendOutcomes ==
  { [ error |-> "",
      response |-> [ ok |-> TRUE, glossSequence |-> << Hello, << "X","Y","Z" >> >>,
                     videos |-> << "https://cdn/hello.webm", "https://cdn/xyz.webm" >> ] ],
    [ error |-> "Failed to fetch", response |-> NoResponse ],
    [ error |-> "Backend responded with 500", response |-> NoResponse ] }

\* a patch handed to setState: the fields it names, with their values
Patch(fields, values) == [fields |-> fields, values |-> values]

\* { ...state, ...patch }
Patched(state, patch) ==
  LET pick(f) == IF f \in patch.fields THEN patch.values[f] ELSE state[f]
  IN  [ isEnabled |-> pick("isEnabled"), status |-> pick("status"), tabId |-> pick("tabId"),
        lastSequence |-> pick("lastSequence"), chunkCount |-> pick("chunkCount"),
        lastUpdated |-> pick("lastUpdated"), lastError |-> pick("lastError") ]

\* a handler that has been called for a message and has not finished.  A
\* step of a handler goes from one access to the storage, or one message of
\* the tab, to the next: what it computes in between is its own.
Activation(type, at) ==
  [ type |-> type, pc |-> at, enable |-> FALSE, tabId |-> 0,
    state |-> defaultState, response |-> NoResponse, error |-> "",
    patch |-> Patch({}, defaultState), next |-> defaultState, then |-> "" ]

\* setState(patch) is called by handler h: it is suspended in getState
CallsSetState(h, patch, then) ==
  [h EXCEPT !.pc = "setState", !.patch = patch, !.then = then]

\* setState(patch) was called by handler h and getState has returned state
ReadsForSetState(h, state, patch, then) ==
  [h EXCEPT !.pc = "storage.set", !.patch = patch, !.next = Patched(state, patch),
            !.then = then]

\* the messages the worker has been sent so far
Arrived ==
  Len(popup.history) + (IF popup.loading THEN 1 ELSE 0) + toWorker.status + toWorker.chunks

Without(list, i) == SubSeq(list, 1, i - 1) \o SubSeq(list, i + 1, Len(list))

Message(type, glosses, videos) == [type |-> type, glosses |-> glosses, videos |-> videos]

CountOf(log, type) == Cardinality({ k \in DOMAIN log : log[k].type = type })

\* sendResponse for a popup:toggle message reaches handleToggle: applyState
\* of the returned state, or the switch is put back
Answered(enable, ok, capture) ==
  [ loading |-> FALSE,
    checked |-> IF ok THEN enable ELSE ~enable,
    history |-> Append(popup.history,
                       [enable |-> enable, ok |-> ok, capture |-> capture,
                        sent |-> Len(toTab)]) ]

\* the patch of startFlow
StartPatch(tabId) ==
  Patch({"isEnabled", "status", "tabId", "lastUpdated", "lastError"},
        [defaultState EXCEPT !.isEnabled = TRUE, !.status = "listening",
                             !.tabId = tabId, !.lastUpdated = 1])

\* popup.js handleToggle sends popup:toggle for the flipped switch.  To
\* enable: the tab id test, ensureContentReady (the script answers the ping
\* or is injected, or the page takes no script), and getState of setState.
\* To disable: getState of stopFlow, and stop-capture to the tab of the state.
PopupToggle ==
  /\ UNCHANGED outsideWorker
  /\ ~popup.loading
  /\ Arrived < MaxMessages
  /\ UNCHANGED << stored, toWorker >>
  /\ IF ~popup.checked
       THEN /\ toTab' = toTab
            /\ \E tabId \in {0, OwningTab}, ready \in BOOLEAN :
                 IF tabId = 0 \/ ~ready
                   THEN /\ popup' = Answered(TRUE, FALSE, "")
                        /\ running' = running
                   ELSE /\ popup' = [popup EXCEPT !.loading = TRUE, !.checked = TRUE]
                        /\ running' =
                             Append(running,
                                    ReadsForSetState(
                                      [Activation("popup:toggle", "") EXCEPT
                                         !.enable = TRUE, !.tabId = tabId],
                                      stored, StartPatch(tabId), "start-capture"))
       ELSE /\ popup' = [popup EXCEPT !.loading = TRUE, !.checked = FALSE]
            /\ IF stored.tabId # 0
                 THEN /\ toTab' = Append(toTab,
                                         Message("background:stop-capture", << >>, << >>))
                      /\ running' =
                           Append(running,
                                  [Activation("popup:toggle", "stop-capture") EXCEPT
                                     !.state = stored])
                 ELSE /\ toTab' = toTab
                      /\ running' =
                           Append(running,
                                  CallsSetState(
                                    [Activation("popup:toggle", "") EXCEPT !.state = stored],
                                    Patch(DOMAIN defaultState, defaultState), "return"))

\* setState: getState returns, next = { ...state, ...patch }
SetStateReads(i) ==
  /\ UNCHANGED outsideWorker
  /\ running[i].pc = "setState"
  /\ running' = [running EXCEPT ![i] =
                   ReadsForSetState(@, stored, running[i].patch, running[i].then)]
  /\ UNCHANGED << stored, popup, toTab, toWorker >>

\* the glosses handleAudioChunk plays for a reply and the written state
GlossesOf(response, updatedState) ==
  IF response.ok /\ Len(response.glossSequence) > 0
    THEN response.glossSequence
    ELSE getDemoGlosses(updatedState.chunkCount)

\* setState: chrome.storage.local.set has written next and the state was
\* broadcast (the popup applies it); the caller goes on to its next await
SetStateWrites(i) ==
  LET h == running[i]
      applied == [popup EXCEPT !.checked = IF popup.loading THEN @ ELSE h.next.isEnabled]
  IN  /\ UNCHANGED outsideWorker
      /\ h.pc = "storage.set"
      /\ stored' = h.next
      /\ toWorker' = toWorker
      /\ CASE h.then = "start-capture" ->
                /\ toTab' = Append(toTab, Message("background:start-capture", << >>, << >>))
                /\ running' = [running EXCEPT ![i].pc = "start-capture"]
                /\ popup' = applied
           [] h.then = "glosses" ->
                /\ running' =
                     [running EXCEPT ![i] =
                        CallsSetState(@, Patch({"lastSequence"},
                                               [defaultState EXCEPT !.lastSequence =
                                                  GlossesOf(h.response, h.next)]),
                                      "play-signs")]
                /\ toTab' = toTab
                /\ popup' = applied
           [] h.then = "play-signs" ->
                /\ toTab' = Append(toTab, Message("background:play-signs",
                                                  h.patch.values.lastSequence,
                                                  h.response.videos))
                /\ running' = Without(running, i)
                /\ popup' = applied
           [] h.then = "return" ->
                /\ running' = Without(running, i)
                /\ toTab' = toTab
                /\ popup' = IF h.type = "popup:toggle"
                              THEN Answered(FALSE, TRUE, "")
                              ELSE applied

\* startFlow: sendToTab(start-capture) settles.  The content script answers
\* { ok: true }, or { ok: false } when capture could not start; or the
\* message cannot be delivered and sendMessage rejects
StartCaptureAnswered(i) ==
  /\ UNCHANGED outsideWorker
  /\ running[i].pc = "start-capture"
  /\ UNCHANGED << stored, toTab, toWorker >>
  /\ running' = Without(running, i)
  /\ \E capture \in {"started", "not-started", "unreachable"} :
       popup' = Answered(TRUE, capture # "unreachable", capture)

\* stopFlow: sendToTab(stop-capture) settles, a rejection is swallowed; then
\* getState of setState({ ...defaultState })
StopCaptureAnswered(i) ==
  /\ UNCHANGED outsideWorker
  /\ running[i].pc = "stop-capture"
  /\ running' =
       [running EXCEPT ![i] =
          ReadsForSetState(@, stored, Patch(DOMAIN defaultState, defaultState), "return")]
  /\ UNCHANGED << stored, popup, toTab, toWorker >>

\* a content:status message of the content script arrives: getState of
\* setState({ status })
ContentStatus ==
  /\ UNCHANGED outsideWorker
  /\ Arrived < MaxMessages
  /\ CountOf(toTab, "background:start-capture") > 0
  /\ \E status \in {"listening", "error"} :
       /\ toWorker' = [toWorker EXCEPT !.status = @ + 1]
       /\ running' =
            Append(running,
                   ReadsForSetState(Activation("content:status", ""), stored,
                                    Patch({"status"}, [defaultState EXCEPT !.status = status]),
                                    "return"))
  /\ UNCHANGED << stored, popup, toTab >>

\* a handler that takes the chunks of any tab while the flow is enabled
ContentAudioChunkOfAnyTab ==
  /\ UNCHANGED outsideWorker
  /\ Arrived < MaxMessages
  /\ CountOf(toTab, "background:start-capture") > 0
  /\ \E sender \in {OwningTab, OwningTab + 1} :
       /\ toWorker' = [toWorker EXCEPT !.chunks = @ + 1, !.sender = sender]
       /\ running' = IF ~stored.isEnabled
                       THEN running
                       ELSE Append(running,
                                   [Activation("content:audio-chunk", "fetch") EXCEPT
                                      !.tabId = sender, !.state = stored])
  /\ UNCHANGED << stored, popup, toTab >>

\* a content:audio-chunk message arrives, of the owning tab or of another
\* tab that still runs a content script: handleAudioChunk up to the return
\* of getState; a chunk is dropped unless the flow is enabled for the
\* sender's tab
ContentAudioChunk ==
  /\ UNCHANGED outsideWorker
  /\ Arrived < MaxMessages
  /\ CountOf(toTab, "background:start-capture") > 0
  /\ \E sender \in {OwningTab, OwningTab + 1} :
       /\ toWorker' = [toWorker EXCEPT !.chunks = @ + 1, !.sender = sender]
       /\ running' = IF ~stored.isEnabled \/ stored.tabId # sender
                       THEN running
                       ELSE Append(running,
                                   [Activation("content:audio-chunk", "fetch") EXCEPT
                                      !.tabId = sender, !.state = stored])
  /\ UNCHANGED << stored, popup, toTab >>

\* the patch of handleAudioChunk's first setState
ChunkPatch(state, settled) ==
  Patch({"status", "chunkCount", "lastUpdated", "lastError"},
        [defaultState EXCEPT !.status = IF settled.response.ok THEN "streaming" ELSE "error",
                             !.chunkCount = state.chunkCount + 1,
                             !.lastUpdated = 1,
                             !.lastError = settled.error])

\* handleAudioChunk: sendChunkToBackend settles, then getState of the
\* first setState
BackendSettles(i) ==
  /\ UNCHANGED outsideWorker
  /\ running[i].pc = "fetch"
  /\ UNCHANGED << stored, popup, toTab, toWorker >>
  /\ \E settled \in BackendOutcomes :
       running' =
         [running EXCEPT ![i] =
            ReadsForSetState([@ EXCEPT !.response = settled.response,
                                       !.error = settled.error],
                             stored, ChunkPatch(running[i].state, settled), "glosses")]

WorkerNext ==
  \/ PopupToggle
  \/ ContentStatus
  \/ ContentAudioChunk
  \/ \E i \in DOMAIN running : SetStateReads(i)
  \/ \E i \in DOMAIN running : SetStateWrites(i)
  \/ \E i \in DOMAIN running : StartCaptureAnswered(i)
  \/ \E i \in DOMAIN running : StopCaptureAnswered(i)
  \/ \E i \in DOMAIN running : BackendSettles(i)

\* the extension runs beside one backend configuration
ExtensionInit ==
  /\ Init
  /\ cfg = [ client |-> "geminiClient.js", localSttEnabled |-> FALSE, hasApiKey |-> FALSE,
             hasQdrant |-> FALSE ]

WorkerSpec == ExtensionInit /\ [][WorkerNext]_vars

-----------------------------------------------------------------------------
(* contentScript.js: the capture and the animator of one tab.  The worker, *)
(* the microphone prompt and the recorder are the environment.  A capture  *)
(* (its stream, audio context and recorder) is known by one number; 0 is   *)
(* null.                                                                   *)

MaxChunks == 2

\* what no handler of the content script touches
outsidePage == << serving, probe, parked, stored, running, popup >>

Reports(n) == [toWorker EXCEPT !.status = @ + n]

\* stopCapture up to its await: the recorder and the tracks the variables
\* name are stopped, the audio context they name is closed
StopsDevices ==
  [media EXCEPT !.recorders = @ \ {page.mediaRecorder},
                !.streams = @ \ {page.mediaStream},
                !.contexts = @ \ {page.audioContext}]

\* stopCapture after its await: the variables are cleared
Cleared ==
  [page EXCEPT !.mediaStream = 0, !.mediaRecorder = 0, !.audioContext = 0,
               !.isCapturing = FALSE]

\* background:start-capture arrives: startCapture up to getUserMedia
StartCaptureMessage ==
  /\ UNCHANGED outsidePage
  /\ Len(toTab) < MaxMessages
  /\ toTab' = Append(toTab, Message("background:start-capture", << >>, << >>))
  /\ UNCHANGED << page, media >>
  /\ IF page.isCapturing
       THEN UNCHANGED << pending, toWorker >>
       ELSE /\ pending' = Append(pending, [fn |-> "startCapture", caller |-> "message"])
            /\ toWorker' = Reports(1)

\* getUserMedia settles.  Granted: the stream, the audio context and the
\* recorder are created and assigned, the recorder starts.  Refused: the
\* catch block awaits stopCapture, then reports the error.
GetUserMediaSettles(i) ==
  /\ UNCHANGED outsidePage
  /\ pending[i].fn = "startCapture"
  /\ toTab' = toTab
  /\ \/ LET capture == media.created + 1
        IN  /\ media' = [ streams |-> media.streams \cup {capture},
                          recorders |-> media.recorders \cup {capture},
                          contexts |-> media.contexts \cup {capture},
                          created |-> capture ]
            /\ page' = [page EXCEPT !.mediaStream = capture, !.audioContext = capture,
                                    !.mediaRecorder = capture, !.isCapturing = TRUE]
            /\ pending' = Without(pending, i)
            /\ toWorker' = Reports(1)
     \/ /\ media' = StopsDevices
        /\ IF page.audioContext # 0
             THEN /\ pending' = [pending EXCEPT ![i] =
                                   [fn |-> "stopCapture", caller |-> "startCapture"]]
                  /\ UNCHANGED << page, toWorker >>
             ELSE /\ pending' = Without(pending, i)
                  /\ page' = Cleared
                  /\ toWorker' = Reports(2)

\* background:stop-capture arrives: stopCapture, up to audioContext.close()
\* when there is a context, to its end when there is none
StopCaptureMessage ==
  /\ UNCHANGED outsidePage
  /\ Len(toTab) < MaxMessages
  /\ toTab' = Append(toTab, Message("background:stop-capture", << >>, << >>))
  /\ media' = StopsDevices
  /\ IF page.audioContext # 0
       THEN /\ pending' = Append(pending, [fn |-> "stopCapture", caller |-> "message"])
            /\ UNCHANGED << page, toWorker >>
       ELSE /\ page' = Cleared
            /\ toWorker' = Reports(1)
            /\ pending' = pending

\* audioContext.close() settles: the rest of stopCapture, and of the catch
\* block of startCapture when that is the caller
AudioContextClosed(i) ==
  /\ UNCHANGED outsidePage
  /\ pending[i].fn = "stopCapture"
  /\ page' = Cleared
  /\ toWorker' = Reports(IF pending[i].caller = "startCapture" THEN 2 ELSE 1)
  /\ pending' = Without(pending, i)
  /\ UNCHANGED << toTab, media >>

\* dataavailable of a recorder that records: streamAudioChunk
RecorderData ==
  /\ UNCHANGED outsidePage
  /\ media.recorders # {}
  /\ toWorker.chunks < MaxChunks
  /\ page' = [page EXCEPT !.chunkSequence = @ + 1]
  /\ toWorker' = [toWorker EXCEPT !.chunks = @ + 1]
  /\ UNCHANGED << toTab, media, pending >>

\* SignAnimator.signSources; "" where the Map has no entry
signSources(gloss) ==
  CASE gloss = Hello -> "assets/signs/hello.webm"
    [] gloss = << "T","O","D","A","Y" >> -> "assets/signs/today.webm"
    [] gloss = << "M","E","E","T","I","N","G" >> -> "assets/signs/meeting.webm"
    [] OTHER -> ""

\* SignAnimator.playNext, on the animator fields of page.  played tells
\* how videoEl.play() settles: the clip plays (clip is "playing", and its
\* ended event will come), or play() is rejected, the catch marks the
\* caption and no ended event comes (clip is "blocked").  The caption
\* 'Awaiting speech...' is the empty one.
playNext(animator, played) ==
  IF animator.queue = << >>
    THEN [animator EXCEPT !.caption = << >>, !.isPlaying = FALSE, !.clip = "none"]
    ELSE LET gloss == Head(animator.queue)
         IN  [animator EXCEPT !.queue = Tail(@),
                              !.caption = IF played THEN gloss
                                          ELSE Append(gloss, " (video blocked)"),
                              !.src = IF signSources(gloss) # "" THEN signSources(gloss)
                                      ELSE signSources(Hello),
                              !.clip = IF played THEN "playing" ELSE "blocked"]

\* the background:play-signs messages the worker may send
PlaySignsMessages ==
  { Message("background:play-signs", << Hello, << "X","Y","Z" >> >>,
            << "https://cdn/hello.webm", "https://cdn/xyz.webm" >>),
    Message("background:play-signs", << << "t","o","d","a","y" >> >>,
            << "https://cdn/today.webm" >>),
    Message("background:play-signs", getDemoGlosses(1), << >>),
    Message("background:play-signs", << >>, << >>) }

\* background:play-signs arrives: animator.playSequence(message.glosses)
PlaySignsMessage ==
  /\ UNCHANGED outsidePage
  /\ Len(toTab) < MaxMessages
  /\ \E message \in PlaySignsMessages, played \in BOOLEAN :
       /\ toTab' = Append(toTab, message)
       /\ page' = playNext([page EXCEPT
                              !.queue = [k \in DOMAIN message.glosses |->
                                           toUpperCase(message.glosses[k])],
                              !.isPlaying = TRUE],
                           played)
  /\ UNCHANGED << toWorker, media, pending >>

\* the clip that plays has ended: playNext
VideoEnded ==
  /\ UNCHANGED outsidePage
  /\ page.clip = "playing"
  /\ \E played \in BOOLEAN : page' = playNext(page, played)
  /\ UNCHANGED << toTab, toWorker, media, pending >>

PageNext ==
  \/ StartCaptureMessage
  \/ StopCaptureMessage
  \/ PlaySignsMessage
  \/ RecorderData
  \/ VideoEnded
  \/ \E i \in DOMAIN pending : GetUserMediaSettles(i)
  \/ \E i \in DOMAIN pending : AudioContextClosed(i)

PageSpec == ExtensionInit /\ [][PageNext]_vars

\* the microphone prompt is answered, a closing context closes, a clip
\* that plays ends
PageFairSpec ==
  /\ PageSpec
  /\ WF_vars(\E i \in DOMAIN pending : GetUserMediaSettles(i))
  /\ WF_vars(\E i \in DOMAIN pending : AudioContextClosed(i))
  /\ WF_vars(VideoEnded)

-----------------------------------------------------------------------------
(* Properties of the service worker *)

\* a handler of an audio chunk whose backend request failed
FailedChunk(h) == h.type = "content:audio-chunk" /\ h.error # ""

\* C23: when the backend request for an accepted chunk fails, the first
\* setState of handleAudioChunk writes status error, the error message as
\* lastError and the incremented chunkCount; its second setState writes, and
\* the play-signs message carries, DEMO_SIGN_SEQUENCES[chunkCount mod 5] for
\* that incremented chunkCount.
C23_BackendFailureGivesDemoSigns ==
  [][\A i \in DOMAIN running :
       LET h == running[i]
           counted == h.state.chunkCount + 1
           demo == DEMO_SIGN_SEQUENCES[(counted % 5) + 1]
       IN  (FailedChunk(h) /\ SetStateWrites(i)) =>
             IF h.then = "glosses"
               THEN /\ stored'.status = "error"
                    /\ stored'.lastError = h.error
                    /\ stored'.chunkCount = counted
               ELSE /\ stored'.lastSequence = demo
                    /\ Len(toTab') = Len(toTab) + 1
                    /\ toTab'[Len(toTab')] = Message("background:play-signs", demo, << >>)
    ]_vars

\* the first chunk of a flow failed at the backend and has been handled:
\* the second demo sequence was sent to the tab and is stored, with the error
C23_Witness ==
  /\ running = << >>
  /\ stored.status = "error"
  /\ stored.lastError = "Backend responded with 500"
  /\ stored.chunkCount = 1
  /\ stored.lastSequence = DEMO_SIGN_SEQUENCES[2]
  /\ \E k \in DOMAIN toTab :
       toTab[k] = Message("background:play-signs", DEMO_SIGN_SEQUENCES[2], << >>)

\* no stop was asked for since the flow was enabled
StayedEnabled ==
  /\ stored.isEnabled
  /\ CountOf(toTab, "background:stop-capture") = 0
  /\ \A k \in DOMAIN popup.history : popup.history[k].enable
  /\ ~(popup.loading /\ ~popup.checked)

\* C25: after k chunks of the owning tab have been fully handled while the
\* flow stayed enabled, the stored chunkCount is k (each handled chunk sent
\* one play-signs message), whatever the interleaving of the handlers.
C25_ChunkCountCountsEveryChunk ==
  (StayedEnabled /\ \A i \in DOMAIN running : running[i].type # "content:audio-chunk")
    => stored.chunkCount = CountOf(toTab, "background:play-signs")

\* the last toggle of the popup was a stop, and it has been answered
StopCompleted ==
  /\ ~popup.loading
  /\ popup.history # << >>
  /\ ~popup.history[Len(popup.history)].enable
  /\ popup.history[Len(popup.history)].ok

\* C26: once stopFlow has completed and the handlers that were running have
\* finished, the stored state is the default state and no play-signs
\* message was sent to the tab after the stop.
C26_StopWinsOverInFlightWork ==
  (StopCompleted /\ running = << >>) =>
    /\ stored = defaultState
    /\ \A k \in DOMAIN toTab :
         k > popup.history[Len(popup.history)].sent =>
           toTab[k].type # "background:play-signs"

\* C27: when a popup:toggle to enable is answered ok: false, or the content
\* script answers that capture could not start, the stored isEnabled is
\* false.
C27_FailedEnableLeavesFlowDisabled ==
  \A k \in DOMAIN popup.history :
    LET answer == popup.history[k]
    IN  (k = Len(popup.history) /\ ~popup.loading /\ answer.enable
         /\ (~answer.ok \/ answer.capture = "not-started"))
          => ~stored.isEnabled

-----------------------------------------------------------------------------
(* Properties of the content script *)

\* C24: when a background:play-signs message carries videos, the clip the
\* animator plays is one of the videos of that message.
C24_VideosPlayedInPreference ==
  \A k \in DOMAIN toTab :
    (k = Len(toTab) /\ toTab[k].type = "background:play-signs"
     /\ toTab[k].videos # << >> /\ page.isPlaying)
      => \E v \in DOMAIN toTab[k].videos : page.src = toTab[k].videos[v]

\* C28: at most one recorder and one stream are live, and each of them is
\* the one the variables of the content script name (the one stopCapture
\* stops).
C28_AtMostOneCapture ==
  /\ Cardinality(media.recorders) <= 1
  /\ Cardinality(media.streams) <= 1
  /\ media.recorders \subseteq {page.mediaRecorder}
  /\ media.streams \subseteq {page.mediaStream}

\* the last capture command the tab received is a stop
StopIsLastCommand ==
  \E k \in DOMAIN toTab :
    /\ toTab[k].type = "background:stop-capture"
    /\ \A j \in DOMAIN toTab : j > k => toTab[j].type # "background:start-capture"

\* C29: after background:stop-capture, without a later start-capture, the
\* content script eventually stays inactive: isCapturing is false and no
\* recorder or stream is live (so no further chunk is sent).
C29_StopEventuallyInactive ==
  <>[](StopIsLastCommand =>
         (~page.isCapturing /\ media.recorders = {} /\ media.streams = {}))

-----------------------------------------------------------------------------
(* Properties of the local strategy *)

\* the query keywords of a local search, lowercased, each once
QuerySet(keywords) == { toLowerCase(keywords[i]) : i \in DOMAIN keywords }

\* the number of query keywords among the keywords of the record
OverlapCount(keywords, r) ==
  Cardinality(QuerySet(keywords) \cap Range(signs[r].keywords))

\* a query keyword is a topic tag of the record
TopicHit(keywords, r) == QuerySet(keywords) \cap Range(signs[r].topics) # {}

\* the similarity of the first query keyword's vector and the embedding
FirstKeywordSimilarity(keywords, r) ==
  cosineSimilarity(
    keywordToVector(IF keywords = << >> THEN << >> ELSE toLowerCase(keywords[1])),
    Vector(signs[r].embedding))

\* C31 as stated: the score of every catalogue record is 0.7 times the
\* number of query keywords among its keywords, plus 0.15 times a topic
\* boost that is 0.15 when a query keyword is one of its topic tags and 0
\* otherwise, plus 0.3 times the cosine similarity of the first query
\* keyword's vector and the record's embedding.  (lex counts twentieths:
\* 0.15 * 0.15 is 9 four-hundredths.)
C31_ScoreWithWeightedBoost ==
  probe.fn = "fallbackSearch" =>
    \A r \in DOMAIN signs :
      LET similarity == FirstKeywordSimilarity(probe.arg.keywords, r)
          score == probe.result.scored[r]
      IN  /\ 20 * score.lex = 280 * OverlapCount(probe.arg.keywords, r)
                                + (IF TopicHit(probe.arg.keywords, r) THEN 9 ELSE 0)
          /\ score.dot = similarity.dot
          /\ score.normA = similarity.normA

\* C31 as the code has it: the score of every catalogue record is 0.7
\* times the number of (lowercased, distinct) query keywords among its
\* keywords, plus 0.15 when a query keyword is one of its topic tags, plus
\* 0.3 times the cosine similarity of the first query keyword's vector and
\* the record's embedding.
C31_ScoreWithPlainBoost ==
  probe.fn = "fallbackSearch" =>
    \A r \in DOMAIN signs :
      LET similarity == FirstKeywordSimilarity(probe.arg.keywords, r)
          score == probe.result.scored[r]
      IN  /\ score.lex = 14 * OverlapCount(probe.arg.keywords, r)
                           + (IF TopicHit(probe.arg.keywords, r) THEN 3 ELSE 0)
          /\ score.dot = similarity.dot
          /\ score.normA = similarity.normA

\* "greeting", then "go": a topic tag of HELLO, a keyword of MEETING, and
\* the similarity is the one of "greeting"
C31_Witness ==
  /\ probe.fn = "fallbackSearch"
  /\ probe.arg.keywords = << << "g","r","e","e","t","i","n","g" >>, << "g","o" >> >>
  /\ probe.result.scored[1].lex = 3
  /\ probe.result.scored[3].lex = 14
  /\ probe.result.scored[3].dot # 0

\* the catalogue record a match was made from
RecordOf(match) == CHOOSE r \in DOMAIN signs : JStr(signs[r].id) = match.id

\* a comes before b in the ranking: the higher score, or the same score and
\* the earlier place in the catalogue
RanksBefore(scored, a, b) ==
  \/ CompareScores(scored[a], scored[b]) > 0
  \/ CompareScores(scored[a], scored[b]) = 0 /\ a < b

\* C32: the local search returns the first topK of the positive-scoring
\* catalogue records in descending order of score, records of equal score in
\* catalogue order; never more than topK entries, and no record twice.
C32_TopKOfPositiveByScore ==
  probe.fn = "fallbackSearch" =>
    LET scored == probe.result.scored
        found == probe.result.matches
        positive == { r \in DOMAIN signs : Positive(scored[r]) }
        returned == { RecordOf(found[i]) : i \in DOMAIN found }
    IN  /\ Len(found) = (IF Cardinality(positive) < probe.arg.topK
                           THEN Cardinality(positive) ELSE probe.arg.topK)
        /\ \A i \in DOMAIN found :
             /\ \E r \in DOMAIN signs : JStr(signs[r].id) = found[i].id
             /\ RecordOf(found[i]) \in positive
             /\ found[i].score = scored[RecordOf(found[i])]
        /\ \A i, j \in DOMAIN found :
             i < j => RanksBefore(scored, RecordOf(found[i]), RecordOf(found[j]))
        /\ \A r \in positive \ returned :
             \A i \in DOMAIN found : RanksBefore(scored, RecordOf(found[i]), r)

\* "", "hi", "now" with topK 1: HELLO and TODAY both score 0.7, and the one
\* returned is HELLO, the earlier in the catalogue
C32_Witness ==
  /\ probe.fn = "fallbackSearch"
  /\ probe.arg = [keywords |-> << << >>, << "h","i" >>, << "n","o","w" >> >>, topK |-> 1]
  /\ CompareScores(probe.result.scored[1], probe.result.scored[2]) = 0
  /\ Positive(probe.result.scored[1])
  /\ Len(probe.result.matches) = 1
  /\ probe.result.matches[1].id = JStr(signs[1].id)

-----------------------------------------------------------------------------
(* Properties of the resolution and of the stages of a request *)

\* the matches whose gloss is the text
MatchesOfGloss(gloss) == { k \in DOMAIN matches : matches[k].gloss = JStr(gloss) }

\* the catalogue records of that gloss, whatever the case (or of that id)
RecordsOfGloss(gloss) ==
  { r \in DOMAIN signs :
      signs[r].gloss = toUpperCase(gloss) \/ signs[r].id = toLowerCase(gloss) }

\* the entry is made from a match of the set, and carries its score
FromMatch(entry, hits) ==
  \E k \in hits :
    /\ entry.score = matches[k].score
    /\ entry.gloss = matches[k].gloss.s
    /\ entry.videoUrl = buildAssetUrl(matches[k].videoFile)

\* the entry is made from a catalogue record of the set, with score 0.4
FromCatalogue(entry, records) ==
  \E r \in records :
    /\ entry.score = PlainScore(8)
    /\ entry.gloss = signs[r].gloss
    /\ entry.videoUrl = buildAssetUrl(JStr(signs[r].videoFile))

\* C33: each token is looked up first among the matches by exact gloss, then
\* by uppercased gloss, then in the catalogue by gloss, and only then
\* replaced by the default sign; an entry resolved from a match carries the
\* match's score, an entry resolved from the catalogue or by substitution
\* carries 0.4.
C33_ResolutionOrderAndScore ==
  (pc = "done" /\ BuildSequenceCalled /\ outcome = Returned) =>
     \A i \in DOMAIN mapping.videos :
        LET token == GlossTokens.a[i].s
            entry == mapping.videos[i]
        IN  IF MatchesOfGloss(token) # {} THEN FromMatch(entry, MatchesOfGloss(token))
            ELSE IF MatchesOfGloss(toUpperCase(token)) # {}
              THEN FromMatch(entry, MatchesOfGloss(toUpperCase(token)))
            ELSE IF RecordsOfGloss(token) # {}
              THEN FromCatalogue(entry, RecordsOfGloss(token))
            ELSE FromCatalogue(entry, RecordsOfGloss(Hello))

\* hello, HELLO, hello against matches that hold HELLO: the first token is
\* found in upper case only, the second as it is, and both entries carry
\* the score of the match
C33_Witness ==
  /\ pc = "done"
  /\ outcome = Returned
  /\ BuildSequenceCalled
  /\ Len(mapping.videos) = 3
  /\ MatchesOfGloss(GlossTokens.a[1].s) = {}
  /\ MatchesOfGloss(toUpperCase(GlossTokens.a[1].s)) # {}
  /\ MatchesOfGloss(GlossTokens.a[2].s) # {}
  /\ mapping.videos[1].score # PlainScore(8)
  /\ mapping.videos[1].score = mapping.videos[2].score

\* the stage an event of the log belongs to: transcription, simplification,
\* search
StageOf(event) ==
  IF IsTranscriptionEvent(event) THEN 1 ELSE IF event = "cloud-text" THEN 2 ELSE 3

Interpreting == req.op \in {"interpretAudio", "interpretText"}

\* where a request is while transcribeAudio runs
Transcribing == pc \in {"transcribeAudio", "localSttFetch", "localSttBody", "cloudStt"}

\* the request has got past transcribeAudio
PastTranscription ==
  \/ pc \in {"simplifySentence", "cloudSimplify", "buildSequence", "qdrantSearch"}
  \/ pc = "done" /\ outcome = Returned

\* the backend calls of the request were made stage after stage, a request
\* for text made none to transcribe, and each stage works on what the stage
\* before it returned
StagesUseEarlierResults ==
  Interpreting =>
    /\ \A i, j \in DOMAIN calls : i < j => StageOf(calls[i]) <= StageOf(calls[j])
    /\ req.op = "interpretText" => TranscriptionEvents = << >> /\ transcript = NoTranscript
    /\ (req.op = "interpretAudio" /\ PastTranscription) =>
         transcript # NoTranscript /\ text = transcript.text
    /\ pc \in {"buildSequence", "qdrantSearch"} => simplified # NoSimplified
    /\ pc = "qdrantSearch" =>
         query = QueryKeywords(OrEmptyArray(simplified.keywords),
                               OrEmptyArray(simplified.glossSequence))

\* a stage is entered from the stage before it only
StagesEnteredInOrder ==
  Interpreting' =>
    /\ (pc' = "simplifySentence" /\ pc # "simplifySentence") =>
         IF req'.op = "interpretAudio" THEN Transcribing ELSE pc = "idle"
    /\ (pc' = "buildSequence" /\ pc # "buildSequence") =>
         pc \in {"simplifySentence", "cloudSimplify"}
    /\ (pc' = "qdrantSearch" /\ pc # "qdrantSearch") => pc = "buildSequence"
    /\ (Transcribing' /\ ~Transcribing) => pc = "idle" /\ req'.op = "interpretAudio"

\* C34: the stages of one request are strictly sequential: in interpretAudio
\* the simplification starts only after the transcription has returned and
\* works on its text, the search starts only after the simplification has
\* returned and works on its keywords and gloss sequence; interpretText
\* runs the last two stages in that order and never calls the transcription.
C34_StagesStrictlySequential ==
  /\ []StagesUseEarlierResults
  /\ [][StagesEnteredInOrder]_vars

\* an interpretAudio request that asked the cloud for the transcript, then
\* for the simplification, then the index for the signs, and returned
C34_Witness ==
  /\ req.op = "interpretAudio"
  /\ pc = "done"
  /\ outcome = Returned
  /\ calls = << "cloud", "cloud-text", "qdrant" >>
  /\ text = transcript.text
  /\ mapping.videos # << >>

\* the local strategy served the search: there is no index, or it failed
LocalStrategyServed == "qdrant" \notin Range(calls) \/ "qdrant-failed" \in Range(calls)

\* C35: buildSequence queries the matcher with the union of the keywords
\* and the lowercased gloss tokens, each once, and with topK 8, and reports
\* the provider qdrant exactly when the matcher returned a match, fallback
\* otherwise, whichever strategy served the search.
C35_QueryIsUnionProviderByMatches ==
  ( /\ pc = "done"
    /\ BuildSequenceCalled
    /\ outcome = Returned
    /\ IsStringArray(GlossTokens)
    /\ IsStringArray(OrEmptyArray(simplified.keywords)) ) =>
     LET keywords == OrEmptyArray(simplified.keywords).a
         tokens == GlossTokens.a
     IN  /\ Range(query) = Range(keywords)
                             \cup { JStr(toLowerCase(tokens[i].s)) : i \in DOMAIN tokens }
         /\ \A i, j \in DOMAIN query : query[i] = query[j] => i = j
         /\ Len(matches) <= 8
         /\ (LocalStrategyServed /\ query # << >>) =>
              matches = fallbackSearch(Strings(query), 8)
         /\ mapping.provider = (IF matches # << >> THEN "qdrant" ELSE "fallback")

\* hi with hello, HELLO, hello: the query is hi, hello; the local strategy
\* serves it, finds HELLO, and the provider reported is qdrant
C35_Witness ==
  /\ pc = "done"
  /\ req.op = "buildSequence"
  /\ outcome = Returned
  /\ Len(GlossTokens.a) = 3
  /\ query = << JStr(<< "h","i" >>), JStr(<< "h","e","l","l","o" >>) >>
  /\ LocalStrategyServed
  /\ matches # << >>
  /\ mapping.provider = "qdrant"

-----------------------------------------------------------------------------
(* Properties of the keyword list *)

\* the tokens of the normalized text that are no stopwords, each once, in
\* the order of their first occurrence
DistinctKeywords(sentence) ==
  Unique(SelectSeq(Tokens(normalizeSentence(sentence)), LAMBDA t : t \notin STOPWORDS))

\* C36: extractKeywords returns exactly the non-stopword tokens of the
\* normalized text, each once, in order of first occurrence, cut to the
\* first limit items; an empty text gives an empty list.
C36_ExactlyFirstLimitKeywords ==
  probe.fn = "extractKeywords" =>
    /\ probe.result = Slice(DistinctKeywords(probe.arg.text), probe.arg.limit)
    /\ probe.arg.text = << >> => probe.result = << >>

-----------------------------------------------------------------------------
(* Properties of the animator *)

\* the glosses of the last background:play-signs message, in upper case
LastSequence ==
  LET plays == { k \in DOMAIN toTab : toTab[k].type = "background:play-signs" }
      last == CHOOSE k \in plays : \A l \in plays : l <= k
  IN  IF plays = {} THEN << >>
      ELSE [i \in DOMAIN toTab[last].glosses |-> toUpperCase(toTab[last].glosses[i])]

\* list is the end of whole
IsSuffix(list, whole) ==
  /\ Len(list) <= Len(whole)
  /\ list = SubSeq(whole, Len(whole) - Len(list) + 1, Len(whole))

\* C37: after playSequence the animator shows the glosses of the sequence
\* in order, what is left to show being the rest of the last sequence
\* received, and the playback ends: the animator comes back to idle
\* (isPlaying false, caption reset), also when a clip cannot be played.
C37_PlaybackProgressesAndEnds ==
  /\ [](IsSuffix(page.queue, LastSequence))
  /\ page.isPlaying ~> (~page.isPlaying /\ page.caption = << >>)

-----------------------------------------------------------------------------
(* Properties of the chunk filter and of the stored status *)

\* a content:audio-chunk message arrives in this step
ChunkArrives == toWorker'.chunks = toWorker.chunks + 1

\* C38: an audio chunk is processed only for the owning tab of an enabled
\* flow: when the stored state has isEnabled false, or the sending tab is
\* not the stored tabId, handleAudioChunk makes no backend request, sends
\* nothing to any tab and leaves the stored state as it is; so every chunk
\* handler that goes on has read an enabled state of its sender's tab.
C38_ChunkOnlyForOwningEnabledTab ==
  /\ [][(ChunkArrives /\ (~stored.isEnabled \/ stored.tabId # toWorker'.sender)) =>
          (running' = running /\ toTab' = toTab /\ stored' = stored)]_vars
  /\ [](\A i \in DOMAIN running :
          running[i].type = "content:audio-chunk" =>
            running[i].state.isEnabled /\ running[i].state.tabId = running[i].tabId)

\* the flow is enabled for the owning tab, a chunk of another tab has come,
\* and nothing runs, nothing was counted, nothing was played
C38_Witness ==
  /\ stored.isEnabled
  /\ stored.tabId = OwningTab
  /\ toWorker.sender = OwningTab + 1
  /\ toWorker.chunks = 1
  /\ running = << >>
  /\ stored.chunkCount = 0
  /\ CountOf(toTab, "background:play-signs") = 0

\* C39: in every reachable state of the extension the stored status is one
\* of idle, pending, listening, streaming, error, and it is listening,
\* streaming or pending only while isEnabled is true.
C39_StatusEnumeratedActiveOnlyEnabled ==
  /\ stored.status \in {"idle", "pending", "listening", "streaming", "error"}
  /\ stored.status \in {"listening", "streaming", "pending"} => stored.isEnabled

=========================================================================
